---- MODULE Spec2Model ----
(***************************************************************************)
(* Cost-basis ledger (services/cost_basis_tracker.py), its replay driver   *)
(* and the wallet analyzer that owns it (services/wallet_analyzer.py).     *)
(*                                                                         *)
(* Numbers.  The code computes in binary floating point; the model         *)
(* computes the same expressions exactly, in fixed point:                  *)
(*   - a quantity is an integer count of 1e-10 token, so the code's        *)
(*     tolerance 1e-10 is the quantity 1 (Tolerance);                      *)
(*   - money is an integer count of 1/MoneyScale USD, MoneyScale being a   *)
(*     common multiple of every quantity an input can carry, so that       *)
(*     cost / quantity and (fragment / quantity) * proceeds are exact;     *)
(*   - holding_period_days is kept as days * 86400 (SecondsPerDay).        *)
(***************************************************************************)
EXTENDS Integers, Sequences, FiniteSets, TLC

VARIABLES
    tracker,    \* the CostBasisTracker instance: method, lots, realized_gains, disposals
    last,       \* the last operation performed, its arguments, the ledger before it and its result
    nops,       \* number of operations performed so far
    txs,        \* the transaction table handed to calculate_cost_basis (its rows in input order)
    sort_kind,  \* how this build's DataFrame.sort_values orders rows of equal timestamp
    runs,       \* the results of the replays that started on a freshly constructed tracker
    cache       \* the CacheManager's "analysis" category: what is stored under each key

vars == <<tracker, last, nops, txs, sort_kind, runs, cache>>

---------------------------------------------------------------------------
(* Bounds of the model *)

MaxOps == 3
MaxTime == 2

(* Inputs *)

Tokens == {"T1", "T2"}
Methods == {"FIFO", "LIFO"}
Quantities == {1, 5, 10, 15}
Tolerance == 1
SecondsPerDay == 86400

\* timestamps: one second into each of the first MaxTime days
Time(day) == (day - 1) * SecondsPerDay + 1
Times == {Time(day) : day \in 1..MaxTime}

Range(seq) == {seq[i] : i \in 1..Len(seq)}

\* the sum of field `field` over the records of seq
RECURSIVE SumOf(_, _)
SumOf(seq, field) ==
    IF seq = <<>> THEN 0 ELSE Head(seq)[field] + SumOf(Tail(seq), field)

RECURSIVE CommonMultiple(_)
CommonMultiple(S) ==
    IF S = {} THEN 1 ELSE LET q == CHOOSE x \in S : TRUE IN q * CommonMultiple(S \ {q})

MoneyScale == CommonMultiple(Quantities)
USD(dollars) == dollars * MoneyScale

Costs == {USD(100), USD(300)}
Proceeds == {USD(0), USD(450)}

---------------------------------------------------------------------------
(* CostBasisTracker *)

NoLots == [t \in Tokens |-> <<>>]

\* a CacheManager directory in which nothing is stored
Wallets == {"W1", "W2"}
CacheKeys == Wallets \X {"transactions", "tracker"}
NoEntry == [exists |-> FALSE]
NoCache == [key \in CacheKeys |-> NoEntry]

\* CostBasisTracker.__init__; lots is the defaultdict read at every token, keys the
\* tokens that are keys of the dict, in the order a dict keeps them
CostBasisTracker(method) ==
    [method |-> method, lots |-> NoLots, keys |-> <<>>, realized_gains |-> <<>>,
     disposals |-> <<>>]

\* datetime.fromtimestamp(timestamp).strftime('%Y-%m-%d'): the calendar day, as a day number
DateOf(timestamp) == timestamp \div SecondsPerDay

\* mutant: the lot keeps the whole cost as its cost per unit
LotCostNotPerUnit(quantity, cost_basis_usd, timestamp, tx_hash) ==
    [quantity |-> quantity,
     cost_per_unit |-> cost_basis_usd,
     total_cost |-> cost_basis_usd,
     timestamp |-> timestamp,
     tx_hash |-> tx_hash,
     acquisition_date |-> timestamp \div SecondsPerDay]

Lot(quantity, cost_basis_usd, timestamp, tx_hash) ==
    [quantity |-> quantity,
     cost_per_unit |-> cost_basis_usd \div quantity,
     total_cost |-> cost_basis_usd,
     timestamp |-> timestamp,
     tx_hash |-> tx_hash,
     acquisition_date |-> DateOf(timestamp)]

\* mutant: an acquisition at the timestamp and the cost per unit of the token's last
\* lot is merged into that lot
_add_acquisition_merging(self, token, quantity, cost_basis_usd, timestamp, tx_hash) ==
    IF quantity <= 0 THEN self
    ELSE LET lots == self.lots[token]
             merges == /\ lots # <<>>
                       /\ lots[Len(lots)].timestamp = timestamp
                       /\ lots[Len(lots)].cost_per_unit = cost_basis_usd \div quantity
         IN  IF merges
             THEN [self EXCEPT !.lots[token][Len(lots)].quantity = @ + quantity,
                               !.lots[token][Len(lots)].total_cost = @ + cost_basis_usd]
             ELSE [self EXCEPT !.lots[token] =
                       Append(@, Lot(quantity, cost_basis_usd, timestamp, tx_hash)),
                               !.keys = IF token \in Range(@) THEN @ ELSE Append(@, token)]

\* mutant: the quantity is not looked at, and a lot is appended for any
_add_acquisition_unguarded(self, token, quantity, cost_basis_usd, timestamp, tx_hash) ==
    [self EXCEPT !.lots[token] =
         Append(@, [quantity |-> quantity,
                    cost_per_unit |-> IF quantity > 0 THEN cost_basis_usd \div quantity ELSE 0,
                    total_cost |-> cost_basis_usd,
                    timestamp |-> timestamp,
                    tx_hash |-> tx_hash,
                    acquisition_date |-> timestamp \div SecondsPerDay]),
                 !.keys = IF token \in Range(@) THEN @ ELSE Append(@, token)]

_add_acquisition(self, token, quantity, cost_basis_usd, timestamp, tx_hash) ==
    IF quantity <= 0 THEN self
    ELSE [self EXCEPT !.lots[token] =
              Append(@, Lot(quantity, cost_basis_usd, timestamp, tx_hash)),
                      !.keys = IF token \in Range(@) THEN @ ELSE Append(@, token)]

\* list.sort(key=timestamp[, reverse=True]) is stable in both directions
SortsBefore(a, b, reverse) ==
    IF reverse THEN a.timestamp > b.timestamp ELSE a.timestamp < b.timestamp

RECURSIVE InsertLot(_, _, _)
InsertLot(lot, sorted, reverse) ==
    IF sorted = <<>> THEN <<lot>>
    ELSE IF SortsBefore(lot, Head(sorted), reverse) THEN <<lot>> \o sorted
    ELSE <<Head(sorted)>> \o InsertLot(lot, Tail(sorted), reverse)

\* mutant: the lots are matched in the order they were appended
SortLotsNoSort(lots, reverse) == lots

RECURSIVE SortLots(_, _)
SortLots(lots, reverse) ==
    IF lots = <<>> THEN <<>>
    ELSE InsertLot(lots[Len(lots)], SortLots(SubSeq(lots, 1, Len(lots) - 1), reverse), reverse)

\* mutant: the fragment's share of the proceeds is taken relative to its lot, not to the disposal
LotUsageShareOfLot(quantity_from_lot, cost_from_lot, lot, quantity, proceeds_usd, timestamp) ==
    [quantity |-> quantity_from_lot,
     cost_basis |-> cost_from_lot,
     proceeds |-> (quantity_from_lot * proceeds_usd) \div lot.quantity,
     acquisition_date |-> lot.acquisition_date,
     holding_period_days |-> timestamp - lot.timestamp]

LotUsage(quantity_from_lot, cost_from_lot, lot, quantity, proceeds_usd, timestamp) ==
    [quantity |-> quantity_from_lot,
     cost_basis |-> cost_from_lot,
     proceeds |-> (quantity_from_lot * proceeds_usd) \div quantity,
     acquisition_date |-> lot.acquisition_date,
     holding_period_days |-> timestamp - lot.timestamp]

\* mutant: every lot is treated as larger than what remains to sell
MatchLotsOversell(lots, remaining_to_sell, total_cost_basis, lots_used, quantity, proceeds_usd, timestamp) ==
    IF ~(remaining_to_sell > Tolerance /\ lots # <<>>)
    THEN [lots |-> lots, total_cost_basis |-> total_cost_basis, lots_used |-> lots_used]
    ELSE LET lot == Head(lots)
             cost_from_lot == remaining_to_sell * lot.cost_per_unit
         IN  [lots |-> <<[lot EXCEPT !.quantity = @ - remaining_to_sell,
                                     !.total_cost = @ - cost_from_lot]>> \o Tail(lots),
              total_cost_basis |-> total_cost_basis + cost_from_lot,
              lots_used |-> Append(lots_used,
                                   [quantity |-> remaining_to_sell,
                                    cost_basis |-> cost_from_lot,
                                    proceeds |-> (remaining_to_sell * proceeds_usd) \div quantity,
                                    acquisition_date |-> lot.acquisition_date,
                                    holding_period_days |-> timestamp - lot.timestamp])]

\* mutant: the matching stops after the first lot
MatchLotsFirstLot(lots, remaining_to_sell, total_cost_basis, lots_used, quantity, proceeds_usd, timestamp) ==
    IF ~(remaining_to_sell > Tolerance /\ lots # <<>>)
    THEN [lots |-> lots, total_cost_basis |-> total_cost_basis, lots_used |-> lots_used]
    ELSE LET lot == Head(lots)
             quantity_from_lot == IF lot.quantity <= remaining_to_sell THEN lot.quantity
                                  ELSE remaining_to_sell
             cost_from_lot == IF lot.quantity <= remaining_to_sell THEN lot.total_cost
                              ELSE remaining_to_sell * lot.cost_per_unit
         IN  [lots |-> IF lot.quantity <= remaining_to_sell THEN Tail(lots)
                       ELSE <<[lot EXCEPT !.quantity = @ - quantity_from_lot,
                                          !.total_cost = @ - cost_from_lot]>> \o Tail(lots),
              total_cost_basis |-> total_cost_basis + cost_from_lot,
              lots_used |-> Append(lots_used,
                                   [quantity |-> quantity_from_lot,
                                    cost_basis |-> cost_from_lot,
                                    proceeds |-> (quantity_from_lot * proceeds_usd) \div quantity,
                                    acquisition_date |-> lot.acquisition_date,
                                    holding_period_days |-> timestamp - lot.timestamp])]

\* mutant: a lot is used whole only when it is smaller than what remains to sell, so a
\* lot of exactly that quantity stays in the ledger, emptied
RECURSIVE MatchLotsKeepsEmptied(_, _, _, _, _, _, _)
MatchLotsKeepsEmptied(lots, remaining_to_sell, total_cost_basis, lots_used, quantity, proceeds_usd, timestamp) ==
    IF ~(remaining_to_sell > Tolerance /\ lots # <<>>)
    THEN [lots |-> lots, total_cost_basis |-> total_cost_basis, lots_used |-> lots_used]
    ELSE LET lot == Head(lots) IN
         IF lot.quantity < remaining_to_sell
         THEN MatchLotsKeepsEmptied(Tail(lots),
                                    remaining_to_sell - lot.quantity,
                                    total_cost_basis + lot.total_cost,
                                    Append(lots_used,
                                           [quantity |-> lot.quantity,
                                            cost_basis |-> lot.total_cost,
                                            proceeds |-> (lot.quantity * proceeds_usd) \div quantity,
                                            acquisition_date |-> lot.acquisition_date,
                                            holding_period_days |-> timestamp - lot.timestamp]),
                                    quantity, proceeds_usd, timestamp)
         ELSE LET cost_from_lot == remaining_to_sell * lot.cost_per_unit
              IN  [lots |-> <<[lot EXCEPT !.quantity = @ - remaining_to_sell,
                                          !.total_cost = @ - cost_from_lot]>> \o Tail(lots),
                   total_cost_basis |-> total_cost_basis + cost_from_lot,
                   lots_used |-> Append(lots_used,
                                        [quantity |-> remaining_to_sell,
                                         cost_basis |-> cost_from_lot,
                                         proceeds |-> (remaining_to_sell * proceeds_usd) \div quantity,
                                         acquisition_date |-> lot.acquisition_date,
                                         holding_period_days |-> timestamp - lot.timestamp])]

\* the matching loop of _process_disposal
RECURSIVE MatchLots(_, _, _, _, _, _, _)
MatchLots(lots, remaining_to_sell, total_cost_basis, lots_used, quantity, proceeds_usd, timestamp) ==
    IF ~(remaining_to_sell > Tolerance /\ lots # <<>>)
    THEN [lots |-> lots, total_cost_basis |-> total_cost_basis, lots_used |-> lots_used]
    ELSE LET lot == Head(lots) IN
         IF lot.quantity <= remaining_to_sell
         THEN MatchLots(Tail(lots),
                        remaining_to_sell - lot.quantity,
                        total_cost_basis + lot.total_cost,
                        Append(lots_used,
                               LotUsage(lot.quantity, lot.total_cost, lot,
                                        quantity, proceeds_usd, timestamp)),
                        quantity, proceeds_usd, timestamp)
         ELSE LET quantity_from_lot == remaining_to_sell
                  cost_from_lot == remaining_to_sell * lot.cost_per_unit
              IN  MatchLots(<<[lot EXCEPT !.quantity = @ - quantity_from_lot,
                                          !.total_cost = @ - cost_from_lot]>> \o Tail(lots),
                            0,
                            total_cost_basis + cost_from_lot,
                            Append(lots_used,
                                   LotUsage(quantity_from_lot, cost_from_lot, lot,
                                            quantity, proceeds_usd, timestamp)),
                            quantity, proceeds_usd, timestamp)

ZeroDisposal ==
    [quantity_disposed |-> 0, total_cost_basis |-> 0, total_proceeds |-> 0,
     realized_gain_loss |-> 0, lots_used |-> <<>>]

\* a record of the disposal log; note is "" where the code's dict has no 'note' key
DisposalRecord(token, quantity, proceeds_usd, timestamp, tx_hash, total_cost_basis, realized_gain_loss, lots_used, note) ==
    [timestamp |-> timestamp,
     tx_hash |-> tx_hash,
     disposal_date |-> DateOf(timestamp),
     token |-> token,
     quantity_disposed |-> quantity,
     total_proceeds |-> proceeds_usd,
     total_cost_basis |-> total_cost_basis,
     realized_gain_loss |-> realized_gain_loss,
     lots_used |-> lots_used,
     note |-> note]

\* mutant: the log is rebuilt from the new record instead of appended to
AppendDisposalOverwrite(self, disposal_record, gain) ==
    [self EXCEPT !.disposals = <<disposal_record>>,
                 !.realized_gains = <<gain>>]

\* self.disposals.append(disposal_record); self.realized_gains.append(gain)
AppendDisposal(self, disposal_record, gain) ==
    [self EXCEPT !.disposals = Append(@, disposal_record),
                 !.realized_gains = Append(@, gain)]

\* mutant: the empty-lots case is not singled out
HasNoLotsNever(self, token) == FALSE

\* "token not in self.lots or not self.lots[token]"
HasNoLots(self, token) == self.lots[token] = <<>>

\* mutant: the record of a disposal without lots carries a fragment of no cost
ZeroCostBasisDisposalWithFragment(token, quantity, proceeds_usd, timestamp, tx_hash) ==
    [timestamp |-> timestamp,
     tx_hash |-> tx_hash,
     disposal_date |-> timestamp \div SecondsPerDay,
     token |-> token,
     quantity_disposed |-> quantity,
     total_proceeds |-> proceeds_usd,
     total_cost_basis |-> 0,
     realized_gain_loss |-> proceeds_usd,
     lots_used |-> <<[quantity |-> quantity, cost_basis |-> 0, proceeds |-> proceeds_usd,
                      acquisition_date |-> timestamp \div SecondsPerDay,
                      holding_period_days |-> 0]>>,
     note |-> "zero_cost_basis"]

\* the record of a disposal of a token that has no lots
ZeroCostBasisDisposal(token, quantity, proceeds_usd, timestamp, tx_hash) ==
    DisposalRecord(token, quantity, proceeds_usd, timestamp, tx_hash,
                   0, proceeds_usd, <<>>, "zero_cost_basis")

\* mutant: the gain is reported as the proceeds, the cost basis not subtracted
MatchedDisposalGross(token, quantity, proceeds_usd, timestamp, tx_hash, total_cost_basis, lots_used) ==
    [timestamp |-> timestamp,
     tx_hash |-> tx_hash,
     disposal_date |-> timestamp \div SecondsPerDay,
     token |-> token,
     quantity_disposed |-> quantity,
     total_proceeds |-> proceeds_usd,
     total_cost_basis |-> total_cost_basis,
     realized_gain_loss |-> proceeds_usd,
     lots_used |-> lots_used,
     note |-> ""]

\* the record of a disposal matched against lots, from the loop's total_cost_basis and lots_used
MatchedDisposal(token, quantity, proceeds_usd, timestamp, tx_hash, total_cost_basis, lots_used) ==
    DisposalRecord(token, quantity, proceeds_usd, timestamp, tx_hash,
                   total_cost_basis, proceeds_usd - total_cost_basis, lots_used, "")

\* mutant: the lots the matching has used stay in the ledger as they were
_process_disposal_keeps_lots(self, token, quantity, proceeds_usd, timestamp, tx_hash) ==
    IF quantity <= 0 THEN [self |-> self, record |-> ZeroDisposal]
    ELSE IF self.lots[token] = <<>>
    THEN [self |-> [self EXCEPT !.disposals =
                        Append(@, ZeroCostBasisDisposal(token, quantity, proceeds_usd,
                                                        timestamp, tx_hash)),
                                !.realized_gains = Append(@, proceeds_usd)],
          record |-> ZeroCostBasisDisposal(token, quantity, proceeds_usd, timestamp, tx_hash)]
    ELSE LET total_cost_basis == SumOf(self.lots[token], "total_cost")
             disposal_record ==
                 DisposalRecord(token, quantity, proceeds_usd, timestamp, tx_hash,
                                total_cost_basis, proceeds_usd - total_cost_basis, <<>>, "")
         IN  [self |-> [self EXCEPT !.disposals = Append(@, disposal_record),
                                    !.realized_gains =
                                        Append(@, disposal_record.realized_gain_loss)],
              record |-> disposal_record]

\* the tracker after the call (self) and the record the call returns (record)
_process_disposal(self, token, quantity, proceeds_usd, timestamp, tx_hash) ==
    IF quantity <= 0 THEN [self |-> self, record |-> ZeroDisposal]
    ELSE IF HasNoLots(self, token)
    THEN LET disposal_record ==
                 ZeroCostBasisDisposal(token, quantity, proceeds_usd, timestamp, tx_hash)
         IN  [self |-> AppendDisposal(self, disposal_record, proceeds_usd),
              record |-> disposal_record]
    ELSE LET sorted == SortLots(self.lots[token], self.method # "FIFO")
             m == MatchLots(sorted, quantity, 0, <<>>, quantity, proceeds_usd, timestamp)
             disposal_record ==
                 MatchedDisposal(token, quantity, proceeds_usd, timestamp, tx_hash,
                                 m.total_cost_basis, m.lots_used)
         IN  [self |-> AppendDisposal([self EXCEPT !.lots[token] = m.lots],
                                      disposal_record, disposal_record.realized_gain_loss),
              record |-> disposal_record]

---------------------------------------------------------------------------
(* The ledger, driven operation by operation *)

NoRecord == [none |-> TRUE]

\* `last` also keeps, for each token, the cost of all its acquisitions so far
NothingAcquired == [token \in Tokens |-> 0]

Init ==
    /\ \E method \in Methods : tracker = CostBasisTracker(method)
    /\ last = [op |-> "init", acquired |-> NothingAcquired]
    /\ nops = 0
    /\ txs = <<>>
    /\ sort_kind = "stable"
    /\ runs = {}
    /\ cache = NoCache

AddAcquisition ==
    /\ nops < MaxOps
    /\ \E token \in Tokens, quantity \in Quantities, cost_basis_usd \in Costs, timestamp \in Times :
        /\ tracker' = _add_acquisition(tracker, token, quantity, cost_basis_usd, timestamp, nops + 1)
        /\ last' = [op |-> "add_acquisition", token |-> token, quantity |-> quantity,
                    amount |-> cost_basis_usd, timestamp |-> timestamp, tx_hash |-> nops + 1,
                    before |-> tracker, record |-> NoRecord,
                    acquired |-> [last.acquired EXCEPT ![token] = @ + cost_basis_usd]]
    /\ nops' = nops + 1
    /\ UNCHANGED <<txs, sort_kind, runs, cache>>

ProcessDisposal ==
    /\ nops < MaxOps
    /\ \E token \in Tokens, quantity \in Quantities, proceeds_usd \in Proceeds, timestamp \in Times :
        LET r == _process_disposal(tracker, token, quantity, proceeds_usd, timestamp, nops + 1)
        IN  /\ tracker' = r.self
            /\ last' = [op |-> "process_disposal", token |-> token, quantity |-> quantity,
                        amount |-> proceeds_usd, timestamp |-> timestamp, tx_hash |-> nops + 1,
                        before |-> tracker, record |-> r.record,
                        acquired |-> last.acquired]
    /\ nops' = nops + 1
    /\ UNCHANGED <<txs, sort_kind, runs, cache>>

Next == AddAcquisition \/ ProcessDisposal

Spec == Init /\ [][Next]_vars

---------------------------------------------------------------------------
(* The replay: CostBasisTracker.calculate_cost_basis *)

MaxTxs == 3
MaxRuns == 2

Directions == {"inbound", "outbound"}
RowQuantities == [inbound |-> {10}, outbound |-> {15}]
RowValues == [inbound |-> {USD(100), USD(300)}, outbound |-> {USD(0), USD(450)}]

\* the rows the ledger processes, but for the hash: 10 of a token coming in, worth $100
\* or $300, or 15 going out, for nothing or for $450
ProcessedContents ==
    UNION {[direction : {d}, token_contract : Tokens, value_normalized : RowQuantities[d],
            quantity_isna : {FALSE}, value_usd : RowValues[d], timestamp : Times,
            is_error : {FALSE}] : d \in Directions}

\* 10 of T1 coming in on the last day, worth $100
PlainContent ==
    [direction |-> "inbound", token_contract |-> "T1", value_normalized |-> 10,
     quantity_isna |-> FALSE, value_usd |-> USD(100), timestamp |-> Time(MaxTime),
     is_error |-> FALSE]

\* and what that row is when the transaction failed, when its quantity is 0 or is
\* missing (NaN: quantity_isna, value_normalized then stands for no number), when it
\* is a transfer of the wallet to itself, and when its value is negative
OtherContents ==
    {[PlainContent EXCEPT !.is_error = TRUE],
     [PlainContent EXCEPT !.value_normalized = 0, !.value_usd = 0],
     [PlainContent EXCEPT !.quantity_isna = TRUE, !.value_usd = 0],
     [PlainContent EXCEPT !.direction = "self"],
     [PlainContent EXCEPT !.value_usd = -USD(100)]}

RowContents == ProcessedContents \cup OtherContents

\* TransactionProcessor._calculate_usd_values sets value_usd = value_normalized *
\* price_usd: the price that gives the row its value, 0 where there is no quantity
PriceUsd(content) ==
    IF content.quantity_isna \/ content.value_normalized = 0 THEN 0
    ELSE content.value_usd \div content.value_normalized

\* a row of the table: the hash is unique in the table, here the row's place in the input
Row(content, hash) ==
    [hash |-> hash,
     timestamp |-> content.timestamp,
     token_contract |-> content.token_contract,
     value_normalized |-> content.value_normalized,
     quantity_isna |-> content.quantity_isna,
     price_usd |-> PriceUsd(content),
     value_usd |-> content.value_usd,
     direction |-> content.direction,
     is_error |-> content.is_error]

\* the table whose rows have these contents, in this order
Table(contents) == [i \in 1..Len(contents) |-> Row(contents[i], i)]

\* numpy's quicksort, which sort_values uses by default, promises no order among equal
\* keys: a build either keeps them in their order ("stable") or not ("unstable", taken
\* here as reversing them).
SortKinds == {"stable", "unstable"}

RowSortsBefore(a, b, ascending, kind) ==
    IF a.timestamp = b.timestamp THEN kind = "unstable"
    ELSE IF ascending THEN a.timestamp < b.timestamp ELSE a.timestamp > b.timestamp

RECURSIVE InsertRow(_, _, _, _)
InsertRow(row, sorted, ascending, kind) ==
    IF sorted = <<>> THEN <<row>>
    ELSE IF RowSortsBefore(row, Head(sorted), ascending, kind) THEN <<row>> \o sorted
    ELSE <<Head(sorted)>> \o InsertRow(row, Tail(sorted), ascending, kind)

\* mutant: the frame is left in the order it came in
sort_values_unsorted(df, ascending, kind) == df

\* DataFrame.sort_values('timestamp', ascending=...)
RECURSIVE sort_values(_, _, _)
sort_values(df, ascending, kind) ==
    IF df = <<>> THEN <<>>
    ELSE InsertRow(df[Len(df)], sort_values(SubSeq(df, 1, Len(df) - 1), ascending, kind),
                   ascending, kind)

\* mutant: the cost basis of the row is never written
AnnotatedNoCost(tx, realized_gain_loss, cost_basis_usd) ==
    [hash |-> tx.hash,
     timestamp |-> tx.timestamp,
     token_contract |-> tx.token_contract,
     value_normalized |-> tx.value_normalized,
     quantity_isna |-> tx.quantity_isna,
     price_usd |-> tx.price_usd,
     value_usd |-> tx.value_usd,
     direction |-> tx.direction,
     is_error |-> tx.is_error,
     realized_gain_loss |-> realized_gain_loss,
     cost_basis_usd |-> 0]

\* the row with the two columns the replay adds
Annotated(tx, realized_gain_loss, cost_basis_usd) ==
    [hash |-> tx.hash,
     timestamp |-> tx.timestamp,
     token_contract |-> tx.token_contract,
     value_normalized |-> tx.value_normalized,
     quantity_isna |-> tx.quantity_isna,
     price_usd |-> tx.price_usd,
     value_usd |-> tx.value_usd,
     direction |-> tx.direction,
     is_error |-> tx.is_error,
     realized_gain_loss |-> realized_gain_loss,
     cost_basis_usd |-> cost_basis_usd]

\* mutant: only a quantity of 0 is skipped
SkippedOnlyZero(tx) == ~tx.quantity_isna /\ tx.value_normalized = 0

\* "is_error or quantity == 0 or pd.isna(quantity)"
Skipped(tx) == tx.is_error \/ tx.quantity_isna \/ tx.value_normalized = 0

\* one iteration of the loop over sorted_df: the tracker and the row after it
ReplayRow(self, tx) ==
    IF Skipped(tx)
    THEN [self |-> self, row |-> Annotated(tx, 0, 0)]
    ELSE IF tx.direction = "inbound"
    THEN LET cost_basis == IF tx.value_usd > 0 THEN tx.value_usd ELSE 0
         IN  [self |-> _add_acquisition(self, tx.token_contract, tx.value_normalized,
                                        cost_basis, tx.timestamp, tx.hash),
              row |-> Annotated(tx, 0, cost_basis)]
    ELSE IF tx.direction = "outbound"
    THEN LET proceeds == IF tx.value_usd > 0 THEN tx.value_usd ELSE 0
             r == _process_disposal(self, tx.token_contract, tx.value_normalized,
                                    proceeds, tx.timestamp, tx.hash)
         IN  [self |-> r.self,
              row |-> Annotated(tx, r.record.realized_gain_loss, r.record.total_cost_basis)]
    ELSE [self |-> self, row |-> Annotated(tx, 0, 0)]

\* the loop over sorted_df; steps keeps, for each row in the order the loop took them,
\* the row, the tracker before and after it and the row as annotated
RECURSIVE ReplayRows(_, _, _, _)
ReplayRows(self, rows, done, steps) ==
    IF rows = <<>> THEN [self |-> self, df |-> done, steps |-> steps]
    ELSE LET r == ReplayRow(self, Head(rows))
         IN  ReplayRows(r.self, Tail(rows), Append(done, r.row),
                        Append(steps, [tx |-> Head(rows), before |-> self,
                                       after |-> r.self, row |-> r.row]))

\* the tracker after the call (self), the table it returns (df) and the steps of its loop
calculate_cost_basis(self, transactions_df, kind) ==
    IF transactions_df = <<>> THEN [self |-> self, df |-> transactions_df, steps |-> <<>>]
    ELSE LET sorted_df == sort_values(transactions_df, TRUE, kind)
             r == ReplayRows(self, sorted_df, <<>>, <<>>)
         IN  [self |-> r.self, df |-> sort_values(r.df, FALSE, kind), steps |-> r.steps]

InitReplay ==
    /\ \E method \in Methods : tracker = CostBasisTracker(method)
    /\ last = [op |-> "init"]
    /\ nops = 0
    /\ \E n \in 1..MaxTxs : \E contents \in [1..n -> RowContents] : txs = Table(contents)
    /\ sort_kind \in SortKinds
    /\ runs = {}
    /\ cache = NoCache

\* mutant: the new tracker starts from the ledger of the one it replaces
FreshTrackerKeepsLedger(old) == old

\* the tracker that replaces old: CostBasisTracker(method=old.method)
FreshTracker(old) == CostBasisTracker(old.method)

\* a new tracker is constructed, with the method of the one it replaces
Construct ==
    /\ nops < MaxRuns
    /\ last.op = "calculate_cost_basis"
    /\ tracker' = FreshTracker(tracker)
    /\ last' = [op |-> "construct"]
    /\ UNCHANGED <<nops, txs, sort_kind, runs, cache>>

CalculateCostBasis ==
    /\ nops < MaxRuns
    /\ \E r \in {calculate_cost_basis(tracker, txs, sort_kind)} :
           /\ tracker' = r.self
           /\ last' = [op |-> "calculate_cost_basis", before |-> tracker, df |-> r.df,
                       steps |-> r.steps, fresh |-> last.op \in {"init", "construct"}]
           /\ runs' = IF last.op \in {"init", "construct"}
                      THEN runs \cup {[self |-> r.self, df |-> r.df]}
                      ELSE runs
    /\ nops' = nops + 1
    /\ UNCHANGED <<txs, sort_kind, cache>>

---------------------------------------------------------------------------
(* The queries of the tracker *)

RECURSIVE Sum(_)
Sum(seq) == IF seq = <<>> THEN 0 ELSE Head(seq) + Sum(Tail(seq))

\* the sum of the values of a function
RECURSIVE SumFn(_)
SumFn(f) ==
    IF DOMAIN f = {} THEN 0
    ELSE LET x == CHOOSE y \in DOMAIN f : TRUE
         IN  f[x] + SumFn([y \in DOMAIN f \ {x} |-> f[y]])

Abs(x) == IF x < 0 THEN -x ELSE x

\* dates are days since the epoch; a 'YYYY-MM-DD' string orders as its day does
Dates == {DateOf(timestamp) : timestamp \in Times}

\* int(pd.to_datetime(date).timestamp()): the midnight that starts the day
Timestamp(date) == date * SecondsPerDay

\* a query gives back the tracker as the call leaves it (self) and what it returns

get_total_realized_gains(self) ==
    [self |-> self, value |-> Sum(self.realized_gains)]

\* current_prices: a function from some tokens to their price, in money per unit of
\* quantity; the empty function stands for None and for {}
NoPrices == [token \in {} |-> 0]
PriceOf(current_prices, token) ==
    IF token \in DOMAIN current_prices THEN current_prices[token] ELSE 0

\* mutant: a token of the map counts whatever its price
get_total_unrealized_gains_any_price(self, current_prices) ==
    IF DOMAIN current_prices = {} THEN [self |-> self, value |-> 0]
    ELSE LET priced == {token \in Tokens : /\ self.lots[token] # <<>>
                                           /\ token \in DOMAIN current_prices}
             unrealized == [token \in priced |->
                               SumOf(self.lots[token], "quantity") * current_prices[token]
                                   - SumOf(self.lots[token], "total_cost")]
         IN  [self |-> self, value |-> SumFn(unrealized)]

get_total_unrealized_gains(self, current_prices) ==
    IF DOMAIN current_prices = {} THEN [self |-> self, value |-> 0]
    ELSE LET priced == {token \in Tokens : /\ self.lots[token] # <<>>
                                           /\ PriceOf(current_prices, token) > 0}
             unrealized == [token \in priced |->
                               SumOf(self.lots[token], "quantity") * current_prices[token]
                                   - SumOf(self.lots[token], "total_cost")]
         IN  [self |-> self, value |-> SumFn(unrealized)]

\* mutant: the query keeps only the period's records in the log
get_realized_gains_for_period_pruning(self, start_date, end_date) ==
    LET period_disposals ==
            SelectSeq(self.disposals,
                      LAMBDA d : start_date <= d.disposal_date /\ d.disposal_date <= end_date)
    IN  [self |-> [self EXCEPT !.disposals = period_disposals], frame |-> period_disposals]

\* the frame it returns has a row per record of the period (none: the empty frame)
get_realized_gains_for_period(self, start_date, end_date) ==
    LET period_disposals ==
            SelectSeq(self.disposals,
                      LAMBDA d : start_date <= d.disposal_date /\ d.disposal_date <= end_date)
    IN  [self |-> self, frame |-> period_disposals]

\* the positions, one per token that has lots; avg_cost_per_unit and return_pct, two
\* quotients of these columns, are left out
get_unrealized_positions(self, current_prices) ==
    LET Position(token) ==
            LET total_quantity == SumOf(self.lots[token], "quantity")
                total_cost == SumOf(self.lots[token], "total_cost")
                current_price == PriceOf(current_prices, token)
            IN  [token |-> token,
                 quantity |-> total_quantity,
                 total_cost_basis |-> total_cost,
                 current_price |-> current_price,
                 current_value |-> total_quantity * current_price,
                 unrealized_gain_loss |-> total_quantity * current_price - total_cost]
    IN  [self |-> self,
         frame |-> {Position(token) : token \in {t \in Tokens : self.lots[t] # <<>>}}]

---------------------------------------------------------------------------
(* FinancialStatementsGenerator.  The rows of the model are plain transfers that paid
   no gas: is_income and is_expense are False, gas_fee_usd is 0 and
   transaction_category is 'transfer' on every row.  A statement is given with the
   tracker as the call leaves it. *)

FinancialStatementsGenerator(transactions_df, cost_basis_tracker) ==
    [transactions |-> transactions_df, tracker |-> cost_basis_tracker]

\* the rows of the frame within the two timestamps
PeriodTxs(transactions, start_ts, end_ts) ==
    SelectSeq(transactions, LAMBDA tx : tx.timestamp >= start_ts /\ tx.timestamp <= end_ts)

\* the rows of the frame for this token at or before the timestamp, in the frame's order
TokenTxs(transactions, token, as_of_timestamp) ==
    SelectSeq(transactions,
              LAMBDA tx : tx.token_contract = token /\ tx.timestamp <= as_of_timestamp)

\* price_series.iloc[-1], the price of the last of these rows, and 0 when there is none;
\* dropna() drops nothing: TransactionProcessor fills price_usd with 0.0, never NaN
LastPrice(token_txs) ==
    IF token_txs = <<>> THEN 0 ELSE token_txs[Len(token_txs)].price_usd

\* the lots of the token acquired at or before the timestamp
RelevantLots(self, token, as_of_timestamp) ==
    SelectSeq(self.tracker.lots[token], LAMBDA l : l.timestamp <= as_of_timestamp)

\* the entry of the token in the list of assets; token_symbol is left out
Asset(self, token, as_of_timestamp) ==
    LET relevant_lots == RelevantLots(self, token, as_of_timestamp)
        total_quantity == SumOf(relevant_lots, "quantity")
        total_cost == SumOf(relevant_lots, "total_cost")
        price_usd == LastPrice(TokenTxs(self.transactions, token, as_of_timestamp))
        value_usd == total_quantity * price_usd
    IN  [contract |-> token,
         quantity |-> total_quantity,
         cost_basis_usd |-> total_cost,
         price_usd |-> price_usd,
         value_usd |-> value_usd,
         unrealized_gain_loss |-> value_usd - total_cost]

\* the loop over self.tracker.lots.items(), the dict's keys in their order
RECURSIVE Assets(_, _, _)
Assets(self, keys, as_of_timestamp) ==
    IF keys = <<>> THEN <<>>
    ELSE LET token == Head(keys)
             relevant_lots == RelevantLots(self, token, as_of_timestamp)
             rest == Assets(self, Tail(keys), as_of_timestamp)
         IN  IF \/ relevant_lots = <<>>
                \/ Abs(SumOf(relevant_lots, "quantity")) < Tolerance
             THEN rest
             ELSE <<Asset(self, token, as_of_timestamp)>> \o rest

\* assets.sort(key=lambda x: abs(x['value_usd']), reverse=True): entries of equal key
\* keep their order
RECURSIVE InsertAsset(_, _)
InsertAsset(asset, sorted) ==
    IF sorted = <<>> THEN <<asset>>
    ELSE IF Abs(asset.value_usd) > Abs(Head(sorted).value_usd) THEN <<asset>> \o sorted
    ELSE <<Head(sorted)>> \o InsertAsset(asset, Tail(sorted))

\* mutant: the assets stay in the order of the dict
SortAssetsNoSort(assets) == assets

RECURSIVE SortAssets(_)
SortAssets(assets) ==
    IF assets = <<>> THEN <<>>
    ELSE InsertAsset(assets[Len(assets)], SortAssets(SubSeq(assets, 1, Len(assets) - 1)))

generate_balance_sheet(self, as_of_date) ==
    LET as_of_timestamp == Timestamp(as_of_date)
        assets == Assets(self, self.tracker.keys, as_of_timestamp)
        total_assets_usd == SumOf(assets, "value_usd")
    IN  [tracker |-> self.tracker,
         statement |->
            [as_of_date |-> as_of_date,
             assets |-> SortAssets(assets),
             total_assets |-> total_assets_usd,
             liabilities |-> 0,
             equity |-> total_assets_usd]]

generate_income_statement(self, start_date, end_date) ==
    LET period_txs == PeriodTxs(self.transactions, Timestamp(start_date), Timestamp(end_date))
        total_income == 0
        realized == get_realized_gains_for_period(self.tracker, start_date, end_date)
        realized_gains_total == SumOf(realized.frame, "realized_gain_loss")
        total_expenses == 0
        total_gas_fees == 0
        total_revenue == total_income + realized_gains_total
        total_costs == total_expenses + total_gas_fees
    IN  [tracker |-> realized.self,
         statement |->
            [period_start |-> start_date,
             period_end |-> end_date,
             realized_gains_losses |-> realized_gains_total,
             total_revenue |-> total_revenue,
             total_expenses |-> total_costs,
             net_income |-> total_revenue - total_costs,
             transaction_count |-> Len(period_txs)]]

generate_cash_flow_statement(self, start_date, end_date) ==
    LET period_txs == PeriodTxs(self.transactions, Timestamp(start_date), Timestamp(end_date))
        Flow(direction) ==
            SumOf(SelectSeq(period_txs, LAMBDA tx : tx.direction = direction), "value_usd")
        net_operating == 0
        net_investing == 0
        net_financing == Flow("inbound") - Flow("outbound")
    IN  [tracker |-> self.tracker,
         statement |->
            [period_start |-> start_date,
             period_end |-> end_date,
             financing_inflows |-> Flow("inbound"),
             financing_outflows |-> Flow("outbound"),
             net_change_in_cash |-> net_operating + net_investing + net_financing]]

\* the loop over the periods, for the frequency 'daily': a period is one day
RECURSIVE PeriodSummaries(_, _, _, _)
PeriodSummaries(self, period_end, end_date, summaries) ==
    IF period_end > end_date THEN [tracker |-> self.tracker, statement |-> summaries]
    ELSE LET income_stmt == generate_income_statement(self, period_end, period_end)
         IN  PeriodSummaries([self EXCEPT !.tracker = income_stmt.tracker],
                             period_end + 1, end_date,
                             Append(summaries,
                                    [period_start |-> period_end,
                                     period_end |-> period_end,
                                     total_revenue |-> income_stmt.statement.total_revenue,
                                     total_expenses |-> income_stmt.statement.total_expenses,
                                     net_income |-> income_stmt.statement.net_income,
                                     transaction_count |->
                                         income_stmt.statement.transaction_count]))

generate_period_summary(self, start_date, end_date) ==
    PeriodSummaries(self, start_date, end_date, <<>>)

\* The calendar of the frequency 'monthly'.  A date is a count of days, day 0 being the
\* first of January of year 0, and no year of the model is a leap year; the months are
\* counted from 0, month 12 being the January of year 1.
MonthLengths == <<31, 28, 31, 30, 31, 30, 31, 31, 30, 31, 30, 31>>

RECURSIVE DaysBefore(_)
DaysBefore(month) ==
    IF month = 0 THEN 0
    ELSE DaysBefore(month - 1) + MonthLengths[((month - 1) % Len(MonthLengths)) + 1]

\* period_end.to_period('M').start_time, the first day of the month
MonthStart(month) == DaysBefore(month)
\* an element of pd.date_range(freq='M'), the last day of the month
MonthEnd(month) == DaysBefore(month + 1) - 1

\* the loop over pd.date_range(start=start_date, end=end_date, freq='M'), the month
\* ends from start_date to end_date: each period is measured by the income statement
\* from the first day of the month to its last
RECURSIVE MonthlySummaries(_, _, _, _, _)
MonthlySummaries(self, month, start_date, end_date, summaries) ==
    IF MonthEnd(month) > end_date THEN [tracker |-> self.tracker, statement |-> summaries]
    ELSE IF MonthEnd(month) < start_date
    THEN MonthlySummaries(self, month + 1, start_date, end_date, summaries)
    ELSE LET period_start == MonthStart(month)
             period_end == MonthEnd(month)
             income_stmt == generate_income_statement(self, period_start, period_end)
         IN  MonthlySummaries([self EXCEPT !.tracker = income_stmt.tracker],
                              month + 1, start_date, end_date,
                              Append(summaries,
                                     [period_start |-> period_start,
                                      period_end |-> period_end,
                                      total_revenue |-> income_stmt.statement.total_revenue,
                                      total_expenses |-> income_stmt.statement.total_expenses,
                                      net_income |-> income_stmt.statement.net_income,
                                      transaction_count |->
                                          income_stmt.statement.transaction_count]))

\* generate_period_summary with the frequency 'monthly', its default
generate_monthly_summary(self, start_date, end_date) ==
    MonthlySummaries(self, 0, start_date, end_date, <<>>)

---------------------------------------------------------------------------
(* CacheManager, for the keys of the "analysis" category *)

\* json.dumps(data, default=str) turns a frame into the text of its rows and a tracker
\* into the default repr of the object, "<...CostBasisTracker object at 0x...>", which
\* names the object and none of its contents; the analyzer has one tracker object.
_compute_hash(data, kind) ==
    IF kind = "tracker" THEN "CostBasisTracker object" ELSE data

\* mutant: the write is always skipped
set_skipped(stored, key, data) == stored

\* CacheManager.set without force: the directory after the call
set(stored, key, data) ==
    LET new_hash == _compute_hash(data, key[2])
    IN  IF stored[key].exists /\ stored[key].hash = new_hash
        THEN stored
        ELSE [stored EXCEPT ![key] = [exists |-> TRUE, data |-> data, hash |-> new_hash]]

\* CacheManager.get returns None for one of the wallet's two keys
NoAnalysisData(stored, wallet_address) ==
    \/ ~stored[<<wallet_address, "transactions">>].exists
    \/ ~stored[<<wallet_address, "tracker">>].exists

\* CacheManager.get of a key that is there: joblib.load gives a copy of what was dumped
get(stored, key) == stored[key].data

\* CacheManager.clear_wallet_cache: the files whose names begin with the address are
\* unlinked, data and metadata
clear_wallet_cache(stored, wallet_address) ==
    [key \in CacheKeys |-> IF key[1] = wallet_address THEN NoEntry ELSE stored[key]]

---------------------------------------------------------------------------
(* WalletAnalyzer *)

MaxAnalyses == 2
MaxFetched == 2
DaysPerYear == 365
ShortTermDays == 365
NoDate == -1

\* what a fetch can return: up to MaxFetched rows of token T1, 10 coming in worth $100
\* or 15 going out for $450
FetchedContents ==
    {c \in ProcessedContents :
        /\ c.token_contract = "T1"
        /\ c.value_usd \in {USD(100), USD(450)}}

Years == {0, 1}
CurrentPrices == {NoPrices, [token \in {"T1"} |-> USD(20)]}

\* the 'date' column of a row
RowDate(tx) == DateOf(tx.timestamp)
MinDate(transactions_df) == CHOOSE d \in {RowDate(tx) : tx \in Range(transactions_df)} :
                                \A tx \in Range(transactions_df) : d <= RowDate(tx)
MaxDate(transactions_df) == CHOOSE d \in {RowDate(tx) : tx \in Range(transactions_df)} :
                                \A tx \in Range(transactions_df) : d >= RowDate(tx)

\* the part of the summary that comes from the tracker
_generate_summary(transactions_df, cost_basis_tracker) ==
    LET realized_gains == get_total_realized_gains(cost_basis_tracker)
        unrealized_gains == get_total_unrealized_gains(realized_gains.self, NoPrices)
    IN  [tracker |-> unrealized_gains.self,
         summary |-> [total |-> Len(transactions_df),
                      realized_gains_usd |-> realized_gains.value,
                      unrealized_gains_usd |-> unrealized_gains.value,
                      total_gains_usd |-> realized_gains.value + unrealized_gains.value]]

\* mutant: a fragment held 365 days is long-term
Form8949EntryStrict(disposal, lot) ==
    [quantity |-> lot.quantity,
     date_acquired |-> lot.acquisition_date,
     date_sold |-> disposal.disposal_date,
     proceeds |-> lot.proceeds,
     cost_basis |-> lot.cost_basis,
     gain_loss |-> lot.proceeds - lot.cost_basis,
     term |-> IF lot.holding_period_days < ShortTermDays * SecondsPerDay
              THEN "Short-term" ELSE "Long-term",
     tx_hash |-> disposal.tx_hash]

\* the rows of the tax report, one per fragment of each record of realized_gains
Form8949Entry(disposal, lot) ==
    [quantity |-> lot.quantity,
     date_acquired |-> lot.acquisition_date,
     date_sold |-> disposal.disposal_date,
     proceeds |-> lot.proceeds,
     cost_basis |-> lot.cost_basis,
     gain_loss |-> lot.proceeds - lot.cost_basis,
     term |-> IF lot.holding_period_days <= ShortTermDays * SecondsPerDay
              THEN "Short-term" ELSE "Long-term",
     tx_hash |-> disposal.tx_hash]

RECURSIVE Form8949Entries(_)
Form8949Entries(realized_gains) ==
    IF realized_gains = <<>> THEN <<>>
    ELSE LET disposal == Head(realized_gains)
         IN  [i \in 1..Len(disposal.lots_used) |-> Form8949Entry(disposal, disposal.lots_used[i])]
                 \o Form8949Entries(Tail(realized_gains))

\* mutant: the losses are summed as they are, negative
TermTotalSigned(entries, term, sign) ==
    SumOf(SelectSeq(entries, LAMBDA e : /\ e.term = term
                                       /\ IF sign = 1 THEN e.gain_loss > 0
                                          ELSE e.gain_loss <= 0),
          "gain_loss")

\* the sum of the gains (sign 1) or of the losses (sign -1) of the entries of a term
TermTotal(entries, term, sign) ==
    sign * SumOf(SelectSeq(entries, LAMBDA e : /\ e.term = term
                                              /\ IF sign = 1 THEN e.gain_loss > 0
                                                 ELSE e.gain_loss <= 0),
                 "gain_loss")

\* the tax report, with the tracker as it leaves it
TaxReport(transactions_df, cost_basis_tracker, tax_year) ==
    LET start_date == tax_year * DaysPerYear
        end_date == (tax_year + 1) * DaysPerYear - 1
        year_txs == SelectSeq(transactions_df,
                              LAMBDA tx : RowDate(tx) >= start_date /\ RowDate(tx) <= end_date)
        realized_gains == get_realized_gains_for_period(cost_basis_tracker, start_date, end_date)
        form_8949_entries == Form8949Entries(realized_gains.frame)
        short_term_gains == TermTotal(form_8949_entries, "Short-term", 1)
        short_term_losses == TermTotal(form_8949_entries, "Short-term", -1)
        long_term_gains == TermTotal(form_8949_entries, "Long-term", 1)
        long_term_losses == TermTotal(form_8949_entries, "Long-term", -1)
    IN  [tracker |-> realized_gains.self,
         statement |->
            [tax_year |-> tax_year,
             short_term |-> [gains |-> short_term_gains, losses |-> short_term_losses,
                             net |-> short_term_gains - short_term_losses],
             long_term |-> [gains |-> long_term_gains, losses |-> long_term_losses,
                            net |-> long_term_gains - long_term_losses],
             total_net |-> (short_term_gains - short_term_losses)
                               + (long_term_gains - long_term_losses),
             form_8949_entries |-> form_8949_entries,
             transaction_count |-> Len(year_txs)]]

\* the four statements of generate_financial_statements, made one after the other by
\* one generator
Statements(transactions_df, cost_basis_tracker, start_date, end_date) ==
    LET generator == FinancialStatementsGenerator(transactions_df, cost_basis_tracker)
        balance_sheet == generate_balance_sheet(generator, end_date)
        income_statement ==
            generate_income_statement([generator EXCEPT !.tracker = balance_sheet.tracker],
                                      start_date, end_date)
        cash_flow_statement ==
            generate_cash_flow_statement([generator EXCEPT !.tracker = income_statement.tracker],
                                         start_date, end_date)
        period_summary ==
            generate_period_summary([generator EXCEPT !.tracker = cash_flow_statement.tracker],
                                    start_date, end_date)
    IN  [tracker |-> period_summary.tracker,
         statement |-> [balance_sheet |-> balance_sheet.statement,
                        income_statement |-> income_statement.statement,
                        cash_flow_statement |-> cash_flow_statement.statement,
                        period_summary |-> period_summary.statement]]

\* the analyzer after its construction, on an empty cache directory
InitAnalyzer ==
    /\ tracker = CostBasisTracker("FIFO")
    /\ last = [op |-> "init"]
    /\ nops = 0
    /\ txs = <<>>
    /\ sort_kind \in SortKinds
    /\ runs = {}
    /\ cache = NoCache

\* WalletAnalyzer.analyze_wallet; the fetch returns any table, or none
AnalyzeWallet ==
    /\ nops < MaxAnalyses
    /\ \E wallet_address \in Wallets, n \in 0..MaxFetched :
       \E contents \in [1..n -> FetchedContents] :
        LET transactions_df == Table(contents)
        IN  IF transactions_df = <<>>
            THEN /\ last' = [op |-> "analyze_wallet", wallet |-> wallet_address,
                             status |-> "no_transactions"]
                 /\ UNCHANGED <<tracker, txs, cache>>
            ELSE \E replay \in {calculate_cost_basis(tracker, transactions_df, sort_kind)} :
                 \E summary \in {_generate_summary(replay.df, replay.self)} :
                     /\ tracker' = summary.tracker
                     /\ txs' = transactions_df
                     /\ cache' = set(set(cache, <<wallet_address, "transactions">>, replay.df),
                                     <<wallet_address, "tracker">>, summary.tracker)
                     /\ last' = [op |-> "analyze_wallet", wallet |-> wallet_address,
                                 status |-> "ok", before |-> tracker,
                                 replayed |-> replay.self, summary |-> summary.summary]
    /\ nops' = nops + 1
    /\ UNCHANGED <<sort_kind, runs>>

\* what a request for a statement leaves in `last`: the tracker it loaded, that tracker
\* after the statement was made, and the statement
Answer(op, wallet_address, loaded, made) ==
    [op |-> op, wallet |-> wallet_address, error |-> "",
     before |-> loaded, after |-> made.tracker, result |-> made.statement]

\* "No analysis data found. Run analyze_wallet first."
ValueError(op, wallet_address) ==
    [op |-> op, wallet |-> wallet_address, error |-> "ValueError"]

\* WalletAnalyzer.generate_financial_statements, period 'daily'
GenerateFinancialStatements ==
    /\ \E wallet_address \in Wallets, start_date \in Dates \cup {NoDate},
          end_date \in Dates \cup {NoDate} :
        IF NoAnalysisData(cache, wallet_address)
        THEN last' = ValueError("generate_financial_statements", wallet_address)
        ELSE LET transactions_df == get(cache, <<wallet_address, "transactions">>)
                 loaded == get(cache, <<wallet_address, "tracker">>)
                 start == IF start_date = NoDate THEN MinDate(transactions_df) ELSE start_date
                 end == IF end_date = NoDate THEN MaxDate(transactions_df) ELSE end_date
             IN  \E made \in {Statements(transactions_df, loaded, start, end)} :
                     last' = Answer("generate_financial_statements", wallet_address,
                                    loaded, made)
    /\ UNCHANGED <<tracker, nops, txs, sort_kind, runs, cache>>

\* WalletAnalyzer.get_balance_sheet
GetBalanceSheet ==
    /\ \E wallet_address \in Wallets, as_of_date \in Dates :
        IF NoAnalysisData(cache, wallet_address)
        THEN last' = ValueError("get_balance_sheet", wallet_address)
        ELSE LET transactions_df == get(cache, <<wallet_address, "transactions">>)
                 loaded == get(cache, <<wallet_address, "tracker">>)
                 generator == FinancialStatementsGenerator(transactions_df, loaded)
             IN  \E made \in {generate_balance_sheet(generator, as_of_date)} :
                     last' = Answer("get_balance_sheet", wallet_address, loaded, made)
    /\ UNCHANGED <<tracker, nops, txs, sort_kind, runs, cache>>

\* WalletAnalyzer.generate_tax_report
GenerateTaxReport ==
    /\ \E wallet_address \in Wallets, tax_year \in Years :
        IF NoAnalysisData(cache, wallet_address)
        THEN last' = ValueError("generate_tax_report", wallet_address)
        ELSE LET transactions_df == get(cache, <<wallet_address, "transactions">>)
                 loaded == get(cache, <<wallet_address, "tracker">>)
             IN  \E made \in {TaxReport(transactions_df, loaded, tax_year)} :
                     last' = Answer("generate_tax_report", wallet_address, loaded, made)
    /\ UNCHANGED <<tracker, nops, txs, sort_kind, runs, cache>>

\* the queries of the analyzer's own tracker
GetRealizedGainsForPeriod ==
    /\ \E start_date \in Dates, end_date \in Dates :
        LET r == get_realized_gains_for_period(tracker, start_date, end_date)
        IN  /\ tracker' = r.self
            /\ last' = [op |-> "get_realized_gains_for_period", error |-> "",
                        before |-> tracker, after |-> r.self, result |-> r.frame]
    /\ UNCHANGED <<nops, txs, sort_kind, runs, cache>>

GetTotalUnrealizedGains ==
    /\ \E current_prices \in CurrentPrices :
        LET r == get_total_unrealized_gains(tracker, current_prices)
        IN  /\ tracker' = r.self
            /\ last' = [op |-> "get_total_unrealized_gains", error |-> "",
                        before |-> tracker, after |-> r.self, result |-> r.value]
    /\ UNCHANGED <<nops, txs, sort_kind, runs, cache>>

GetUnrealizedPositions ==
    /\ \E current_prices \in CurrentPrices :
        LET r == get_unrealized_positions(tracker, current_prices)
        IN  /\ tracker' = r.self
            /\ last' = [op |-> "get_unrealized_positions", error |-> "",
                        before |-> tracker, after |-> r.self, result |-> r.frame]
    /\ UNCHANGED <<nops, txs, sort_kind, runs, cache>>

\* DELETE /api/v1/cache/{address}
ClearWalletCache ==
    /\ \E wallet_address \in Wallets :
        /\ cache' = clear_wallet_cache(cache, wallet_address)
        /\ last' = [op |-> "clear_wallet_cache", wallet |-> wallet_address, error |-> ""]
    /\ UNCHANGED <<tracker, nops, txs, sort_kind, runs>>

\* the status of the response to a request: the handlers of main.py answer a ValueError
\* with 404 and its message, and a result with 200
HTTP_404_NOT_FOUND == 404
HTTP_200_OK == 200
StatusCode(answer) ==
    IF answer.error = "ValueError" THEN HTTP_404_NOT_FOUND ELSE HTTP_200_OK

NextAnalyzer ==
    \/ AnalyzeWallet
    \/ ClearWalletCache
    \/ GenerateFinancialStatements
    \/ GetBalanceSheet
    \/ GenerateTaxReport
    \/ GetRealizedGainsForPeriod
    \/ GetTotalUnrealizedGains
    \/ GetUnrealizedPositions

SpecAnalyzer == InitAnalyzer /\ [][NextAnalyzer]_vars

---------------------------------------------------------------------------
(* The reports made of a replay: the table and the tracker calculate_cost_basis has
   returned are handed to the generator and to the tax report, as analyze_wallet and
   the request handlers hand them *)

\* the dates a balance sheet is asked for: the day before the first row to the day
\* after the last
AsOfDates == 0..MaxTime

\* a generator is made of the table and the tracker the replay has just returned, and
\* asked for the balance sheet
GenerateBalanceSheet ==
    /\ last.op = "calculate_cost_basis"
    /\ \E as_of_date \in AsOfDates :
        \E made \in {generate_balance_sheet(FinancialStatementsGenerator(last.df, tracker),
                                             as_of_date)} :
            /\ tracker' = made.tracker
            /\ last' = [op |-> "generate_balance_sheet", error |-> "",
                        as_of_date |-> as_of_date, df |-> last.df, fresh |-> last.fresh,
                        before |-> tracker, after |-> made.tracker,
                        result |-> made.statement]
    /\ UNCHANGED <<nops, txs, sort_kind, runs, cache>>

\* and asked for the income statement of a range of dates
GenerateIncomeStatement ==
    /\ last.op = "calculate_cost_basis"
    /\ \E start_date \in Dates, end_date \in Dates :
        \E made \in {generate_income_statement(
                          FinancialStatementsGenerator(last.df, tracker),
                          start_date, end_date)} :
            /\ tracker' = made.tracker
            /\ last' = [op |-> "generate_income_statement", error |-> "",
                        start_date |-> start_date, end_date |-> end_date,
                        df |-> last.df, fresh |-> last.fresh,
                        before |-> tracker, after |-> made.tracker,
                        result |-> made.statement]
    /\ UNCHANGED <<nops, txs, sort_kind, runs, cache>>

NextReplay ==
    \/ Construct
    \/ CalculateCostBasis
    \/ GenerateBalanceSheet
    \/ GenerateIncomeStatement

SpecReplay == InitReplay /\ [][NextReplay]_vars

\* The reports of a wallet whose transactions are more than a year apart.
MaxReportTxs == 3

\* noon of the 31st of January of year 0
MonthEndNoon == MonthEnd(0) * SecondsPerDay + SecondsPerDay \div 2

\* the first second of year 0, noon of its 31st of January, 365 days after that noon
\* to the second, and one second more
ReportTimes ==
    {Time(1), MonthEndNoon, MonthEndNoon + ShortTermDays * SecondsPerDay,
     MonthEndNoon + ShortTermDays * SecondsPerDay + 1}

\* what goes out of the wallet in these tables: 5 of the token for nothing, or 15 for
\* $300, which is more by the unit than the cost of one lot and less than that of the other
ReportDisposals == {[quantity |-> 5, value_usd |-> USD(0)],
                    [quantity |-> 15, value_usd |-> USD(300)]}

\* 10 of T1 coming in, worth $100 or $300, or one of these disposals of T1
ReportContents ==
    {[PlainContent EXCEPT !.timestamp = t, !.value_usd = v] :
        t \in ReportTimes, v \in RowValues.inbound}
    \cup {[PlainContent EXCEPT !.direction = "outbound", !.timestamp = t,
                               !.value_normalized = d.quantity, !.value_usd = d.value_usd] :
              t \in ReportTimes, d \in ReportDisposals}

InitReports ==
    /\ \E method \in Methods : tracker = CostBasisTracker(method)
    /\ last = [op |-> "init"]
    /\ nops = 0
    /\ \E n \in 1..MaxReportTxs : \E contents \in [1..n -> ReportContents] :
          txs = Table(contents)
    /\ sort_kind \in SortKinds
    /\ runs = {}
    /\ cache = NoCache

\* the tax report of a year, made of the table and the tracker of the replay
TaxReportOfReplay ==
    /\ last.op = "calculate_cost_basis"
    /\ \E tax_year \in Years :
        \E made \in {TaxReport(last.df, tracker, tax_year)} :
            /\ tracker' = made.tracker
            /\ last' = [op |-> "generate_tax_report", error |-> "",
                        tax_year |-> tax_year, df |-> last.df,
                        before |-> tracker, after |-> made.tracker,
                        result |-> made.statement]
    /\ UNCHANGED <<nops, txs, sort_kind, runs, cache>>

\* the ranges a monthly summary is asked for: year 0 from its first day to its last,
\* and from the 31st of January of year 0 to that of year 1
SummaryRanges == {<<MonthStart(0), MonthEnd(11)>>, <<MonthEnd(0), MonthEnd(12)>>}

\* the monthly summary of a range, made of the table and the tracker of the replay
PeriodSummaryOfReplay ==
    /\ last.op = "calculate_cost_basis"
    /\ \E range \in SummaryRanges :
        \E made \in {generate_monthly_summary(FinancialStatementsGenerator(last.df, tracker),
                                               range[1], range[2])} :
            /\ tracker' = made.tracker
            /\ last' = [op |-> "generate_period_summary", error |-> "",
                        start_date |-> range[1], end_date |-> range[2], df |-> last.df,
                        before |-> tracker, after |-> made.tracker,
                        result |-> made.statement]
    /\ UNCHANGED <<nops, txs, sort_kind, runs, cache>>

\* the income statement of a year, from its first day to its last, made of the table
\* and the tracker of the replay
IncomeStatementOfReplay ==
    /\ last.op = "calculate_cost_basis"
    /\ \E year \in Years :
        \E made \in {generate_income_statement(
                          FinancialStatementsGenerator(last.df, tracker),
                          year * DaysPerYear, (year + 1) * DaysPerYear - 1)} :
            /\ tracker' = made.tracker
            /\ last' = [op |-> "generate_income_statement", error |-> "",
                        start_date |-> year * DaysPerYear,
                        end_date |-> (year + 1) * DaysPerYear - 1,
                        df |-> last.df, fresh |-> last.fresh,
                        before |-> tracker, after |-> made.tracker,
                        result |-> made.statement]
    /\ UNCHANGED <<nops, txs, sort_kind, runs, cache>>

NextReports ==
    \/ CalculateCostBasis
    \/ TaxReportOfReplay
    \/ PeriodSummaryOfReplay
    \/ IncomeStatementOfReplay

SpecReports == InitReports /\ [][NextReports]_vars

---------------------------------------------------------------------------
(* The ledger under every call of a caller: the acquisitions and the disposals of Spec,
   those of a quantity that is not positive, and the query of the unrealized gains *)

\* quantities that are not positive
NonPositive == {0, 0 - 5}

AddAcquisitionOfNothing ==
    /\ nops < MaxOps
    /\ \E token \in Tokens, quantity \in NonPositive :
        /\ tracker' = _add_acquisition(tracker, token, quantity, USD(100), Time(1), nops + 1)
        /\ last' = [op |-> "add_acquisition", token |-> token, quantity |-> quantity,
                    amount |-> USD(100), timestamp |-> Time(1), tx_hash |-> nops + 1,
                    before |-> tracker, record |-> NoRecord, acquired |-> last.acquired]
    /\ nops' = nops + 1
    /\ UNCHANGED <<txs, sort_kind, runs, cache>>

ProcessDisposalOfNothing ==
    /\ nops < MaxOps
    /\ \E token \in Tokens, quantity \in NonPositive :
        \E r \in {_process_disposal(tracker, token, quantity, USD(450), Time(1), nops + 1)} :
            /\ tracker' = r.self
            /\ last' = [op |-> "process_disposal", token |-> token, quantity |-> quantity,
                        amount |-> USD(450), timestamp |-> Time(1), tx_hash |-> nops + 1,
                        before |-> tracker, record |-> r.record, acquired |-> last.acquired]
    /\ nops' = nops + 1
    /\ UNCHANGED <<txs, sort_kind, runs, cache>>

\* the maps of prices a caller passes: none, a price for T1 only, a price for T1 and 0
\* for T2, and a negative price for T1 and a price for T2
PriceMaps ==
    {NoPrices,
     [token \in {"T1"} |-> USD(20)],
     [token \in Tokens |-> IF token = "T1" THEN USD(20) ELSE 0],
     [token \in Tokens |-> IF token = "T1" THEN 0 - USD(20) ELSE USD(40)]}

UnrealizedGainsOfLedger ==
    /\ last.op \in {"add_acquisition", "process_disposal"}
    /\ \E current_prices \in PriceMaps :
        \E r \in {get_total_unrealized_gains(tracker, current_prices)} :
            /\ tracker' = r.self
            /\ last' = [op |-> "get_total_unrealized_gains", error |-> "",
                        current_prices |-> current_prices,
                        before |-> tracker, after |-> r.self, result |-> r.value,
                        acquired |-> last.acquired]
    /\ UNCHANGED <<nops, txs, sort_kind, runs, cache>>

NextCalls ==
    \/ AddAcquisition
    \/ ProcessDisposal
    \/ AddAcquisitionOfNothing
    \/ ProcessDisposalOfNothing
    \/ UnrealizedGainsOfLedger

SpecCalls == Init /\ [][NextCalls]_vars

---------------------------------------------------------------------------
(* Helpers of the properties *)

IsLedgerOp == last.op \in {"add_acquisition", "process_disposal"}
IsDisposal == last.op = "process_disposal"

\* the lots of the last operation's token, before and after it
LotsBefore == last.before.lots[last.token]
LotsAfter == tracker.lots[last.token]

\* the lot of LotsBefore with this hash is gone from the ledger
FullyConsumed(lot) == \A l \in Range(LotsAfter) : l.tx_hash # lot.tx_hash
\* it is still there, smaller
PartlyConsumed(lot) ==
    \E l \in Range(LotsAfter) : l.tx_hash = lot.tx_hash /\ l.quantity < lot.quantity
Touched(lot) == FullyConsumed(lot) \/ PartlyConsumed(lot)

---------------------------------------------------------------------------
(* Properties of the ledger *)

\* C2: lot conservation: the quantities of a token's remaining lots never sum to
\* less than 0, also after a disposal of more than is held.
C2_LotConservation ==
    \A token \in Tokens :
        /\ SumOf(tracker.lots[token], "quantity") >= 0
        /\ \A lot \in Range(tracker.lots[token]) : lot.quantity >= 0

\* a disposal of more than the token's lots held has just emptied them
C2_Witness ==
    /\ IsDisposal
    /\ LotsBefore # <<>>
    /\ last.quantity > SumOf(LotsBefore, "quantity")
    /\ LotsAfter = <<>>

\* C3: every lot's total_cost is quantity * cost_per_unit, and an operation leaves
\* the cost_per_unit of every lot it keeps as it was.
C3_LotCostConsistent ==
    /\ \A token \in Tokens : \A lot \in Range(tracker.lots[token]) :
           lot.total_cost = lot.quantity * lot.cost_per_unit
    /\ IsLedgerOp =>
           \A token \in Tokens :
               \A lot \in Range(tracker.lots[token]), old \in Range(last.before.lots[token]) :
                   lot.tx_hash = old.tx_hash => lot.cost_per_unit = old.cost_per_unit

\* a disposal has just taken part of a lot that cost something
C3_Witness ==
    /\ IsDisposal
    /\ \E lot \in Range(LotsBefore) : PartlyConsumed(lot) /\ lot.total_cost > 0

\* C4: every record of the disposal log has total_cost_basis equal to the sum of its
\* fragments' cost_basis and realized_gain_loss equal to total_proceeds - total_cost_basis.
C4_DisposalIdentity ==
    \A d \in Range(tracker.disposals) :
        /\ d.total_cost_basis = SumOf(d.lots_used, "cost_basis")
        /\ d.realized_gain_loss = d.total_proceeds - d.total_cost_basis

\* the log holds a zero-cost-basis record and a record matched against two lots
C4_Witness ==
    /\ \E d \in Range(tracker.disposals) : d.note = "zero_cost_basis" /\ d.total_proceeds > 0
    /\ \E d \in Range(tracker.disposals) : Len(d.lots_used) = 1 /\ d.total_cost_basis > 0

\* the lots and the disposal of the worked example: A1(t=1, 10, $100), A2(t=2, 10, $300),
\* in either order of arrival, then 15 disposed of for $450
IsExample ==
    /\ IsDisposal
    /\ last.quantity = 15
    /\ last.amount = USD(450)
    /\ Len(LotsBefore) = 2
    /\ {[quantity |-> l.quantity, total_cost |-> l.total_cost, timestamp |-> l.timestamp,
         cost_per_unit |-> l.cost_per_unit] : l \in Range(LotsBefore)}
         = {[quantity |-> 10, total_cost |-> USD(100), timestamp |-> Time(1), cost_per_unit |-> USD(10)],
            [quantity |-> 10, total_cost |-> USD(300), timestamp |-> Time(2), cost_per_unit |-> USD(30)]}

\* C5: a disposal takes lots in acquisition-time order (FIFO: oldest first, LIFO:
\* newest first), at most the last lot it takes partially; in the worked example FIFO
\* gives cost basis 250 and gain 200, LIFO cost basis 350 and gain 100.
C5_ConsumptionOrder ==
    /\ (IsDisposal /\ last.quantity > 0 /\ LotsBefore # <<>>) =>
        /\ \A lot \in Range(LotsBefore), other \in Range(LotsBefore) :
               (/\ Touched(lot)
                /\ IF tracker.method = "FIFO"
                   THEN other.timestamp < lot.timestamp
                   ELSE other.timestamp > lot.timestamp)
               => FullyConsumed(other)
        /\ Cardinality({lot \in Range(LotsBefore) : PartlyConsumed(lot)}) <= 1
        /\ Cardinality({lot \in Range(LotsBefore) : Touched(lot)}) = Len(last.record.lots_used)
        /\ \A i \in 1..(Len(last.record.lots_used) - 1) :
               \E lot \in Range(LotsBefore) :
                   /\ FullyConsumed(lot)
                   /\ lot.quantity = last.record.lots_used[i].quantity
                   /\ lot.total_cost = last.record.lots_used[i].cost_basis
    /\ IsExample =>
        /\ last.record.total_cost_basis = USD(IF tracker.method = "FIFO" THEN 250 ELSE 350)
        /\ last.record.realized_gain_loss = USD(IF tracker.method = "FIFO" THEN 200 ELSE 100)

\* the worked example under LIFO, its lots having arrived oldest first
C5_Witness ==
    /\ IsExample
    /\ tracker.method = "LIFO"
    /\ LotsBefore[1].timestamp < LotsBefore[2].timestamp
    /\ Len(last.record.lots_used) = 2

\* C6: a disposal of a positive quantity of a token without lots appends one record
\* with cost basis 0, gain equal to the proceeds, no fragments and the
\* zero_cost_basis marker; a disposal that finds a lot does not carry the marker.
C6_ZeroCostBasis ==
    (IsDisposal /\ last.quantity > 0) =>
        IF LotsBefore = <<>>
        THEN /\ tracker.disposals = Append(last.before.disposals, last.record)
             /\ last.record.total_cost_basis = 0
             /\ last.record.realized_gain_loss = last.amount
             /\ last.record.total_proceeds = last.amount
             /\ last.record.lots_used = <<>>
             /\ last.record.note = "zero_cost_basis"
        ELSE last.record.note # "zero_cost_basis"

\* a token whose only lot an earlier disposal consumed is disposed of again
C6_Witness ==
    /\ IsDisposal
    /\ LotsBefore = <<>>
    /\ last.amount > 0
    /\ \E d \in Range(last.before.disposals) : d.token = last.token /\ d.lots_used # <<>>

\* C7: each fragment's proceeds is (fragment quantity / quantity_disposed) * total_proceeds.
C7_ProceedsShare ==
    \A d \in Range(tracker.disposals) : \A f \in Range(d.lots_used) :
        f.proceeds * d.quantity_disposed = f.quantity * d.total_proceeds

\* a disposal with proceeds took a whole lot and part of another
C7_Witness ==
    /\ IsDisposal
    /\ last.amount > 0
    /\ Len(last.record.lots_used) = 2
    /\ \E lot \in Range(LotsBefore) : PartlyConsumed(lot)

\* C8: the disposal log is append-only: a disposal of a positive quantity adds one
\* record at its end, and no operation removes, reorders or changes an earlier record.
C8_AppendOnly ==
    [][/\ Len(tracker'.disposals) >= Len(tracker.disposals)
       /\ SubSeq(tracker'.disposals, 1, Len(tracker.disposals)) = tracker.disposals
       /\ IF last'.op = "process_disposal" /\ last'.quantity > 0
          THEN tracker'.disposals = Append(tracker.disposals, last'.record)
          ELSE tracker'.disposals = tracker.disposals]_vars

\* the log holds three records
C8_Witness == Len(tracker.disposals) = 3

---------------------------------------------------------------------------
(* Properties of the replay *)

---------------------------------------------------------------------------
(* Properties of the analyzer *)

AnalysisDone == last.op = "analyze_wallet" /\ last.status = "ok"

\* C1: an analysis run replays on a fresh, empty ledger: the lots and the disposal log
\* it ends with, and those stored for the wallet, are the ones a new FIFO tracker has
\* after replaying this run's transactions, whatever was analysed before.
C1_FreshLedgerPerRun ==
    AnalysisDone =>
        LET fresh == calculate_cost_basis(CostBasisTracker("FIFO"), txs, sort_kind).self
            stored == get(cache, <<last.wallet, "tracker">>)
        IN  /\ tracker.lots = fresh.lots
            /\ tracker.disposals = fresh.disposals
            /\ stored.lots = fresh.lots
            /\ stored.disposals = fresh.disposals

QueryOps ==
    {"generate_financial_statements", "get_balance_sheet", "generate_tax_report",
     "get_realized_gains_for_period", "get_total_unrealized_gains", "get_unrealized_positions"}

\* C9: a balance sheet, income statement, cash flow statement, period summary or tax
\* report, and a query of the realized gains of a range or of the unrealized gains,
\* leave the lots and the disposal log of the tracker they read as they were, and
\* change neither the analyzer's tracker nor what is stored.
C9_QueriesLeaveLedger ==
    [][/\ last'.op \in QueryOps =>
           /\ tracker'.lots = tracker.lots
           /\ tracker'.disposals = tracker.disposals
           /\ cache' = cache
           /\ last'.error = "" =>
                  /\ last'.after.lots = last'.before.lots
                  /\ last'.after.disposals = last'.before.disposals
       /\ (last'.op = "analyze_wallet" /\ last'.status = "ok") =>
           /\ tracker'.lots = last'.replayed.lots
           /\ tracker'.disposals = last'.replayed.disposals]_vars

\* the four statements have been made from a tracker that has a lot and a record in
\* its log: the balance sheet lists the lot and the income statement has the gain
C9_Witness ==
    /\ last.op = "generate_financial_statements"
    /\ last.error = ""
    /\ last.before.disposals # <<>>
    /\ last.before.lots["T1"] # <<>>
    /\ last.result.balance_sheet.assets # <<>>
    /\ last.result.income_statement.realized_gains_losses # 0
    /\ last.result.period_summary # <<>>

---------------------------------------------------------------------------
(* Properties of the order and the output of the replay *)

Replayed == last.op = "calculate_cost_basis"

\* C11: the replay takes the rows in non-decreasing timestamp order whatever their
\* order in the input, and rows of equal timestamp in their input order (a row's hash
\* is its place in the input).
C11_StableTimestampOrder ==
    Replayed =>
        \A i \in 1..Len(last.steps), j \in 1..Len(last.steps) :
            i < j =>
                \/ last.steps[i].tx.timestamp < last.steps[j].tx.timestamp
                \/ /\ last.steps[i].tx.timestamp = last.steps[j].tx.timestamp
                   /\ last.steps[i].tx.hash < last.steps[j].tx.hash

---------------------------------------------------------------------------
(* Properties of the balance sheet *)

BalanceSheetMade == last.op = "generate_balance_sheet"

\* the ledger a new tracker holds after the replay of the input rows of timestamp at
\* most that of the balance sheet
LedgerAsOf ==
    LET as_of_timestamp == Timestamp(last.as_of_date)
        upto == SelectSeq(txs, LAMBDA tx : tx.timestamp <= as_of_timestamp)
    IN  calculate_cost_basis(CostBasisTracker(tracker.method), upto, sort_kind).self

\* C12: the balance sheet as of a date lists, for each token, the quantity and the cost
\* basis the ledger holds after the replay of the transactions up to that date only, and
\* lists no token that ledger does not hold.
C12_BalanceSheetAsOf ==
    (BalanceSheetMade /\ last.fresh) =>
        \A token \in Tokens :
            LET held == LedgerAsOf.lots[token]
                listed == {[contract |-> a.contract, quantity |-> a.quantity,
                            cost_basis_usd |-> a.cost_basis_usd] :
                               a \in {e \in Range(last.result.assets) : e.contract = token}}
            IN  IF SumOf(held, "quantity") >= Tolerance
                THEN listed = {[contract |-> token,
                                quantity |-> SumOf(held, "quantity"),
                                cost_basis_usd |-> SumOf(held, "total_cost")]}
                ELSE listed = {}

\* the rows of the table the balance sheet was made of that are of the token and not
\* after the date of the sheet
RowsAsOf(token) ==
    {tx \in Range(last.df) :
        tx.token_contract = token /\ tx.timestamp <= Timestamp(last.as_of_date)}

\* C13: the price of a listed token is the price_usd of a row of the token that no other
\* row of the token at or before the date of the sheet is later than, and 0 without such
\* a row (no row of the table lacks its price).
C13_LatestPriceAsOf ==
    BalanceSheetMade =>
        \A a \in Range(last.result.assets) :
            LET rows == RowsAsOf(a.contract)
                latest == {tx \in rows : \A other \in rows : other.timestamp <= tx.timestamp}
            IN  IF rows = {} THEN a.price_usd = 0
                ELSE a.price_usd \in {tx.price_usd : tx \in latest}

\* C18: a balance sheet has no liabilities, its equity is its total of assets, the total
\* is the sum of the values of the assets it lists, and no asset is listed before one
\* of greater absolute value.
C18_BalanceSheetTotals ==
    BalanceSheetMade =>
        LET sheet == last.result
        IN  /\ sheet.liabilities = 0
            /\ sheet.equity = sheet.total_assets
            /\ sheet.total_assets = SumOf(sheet.assets, "value_usd")
            /\ \A i \in 1..Len(sheet.assets), j \in 1..Len(sheet.assets) :
                   i < j => Abs(sheet.assets[i].value_usd) >= Abs(sheet.assets[j].value_usd)

\* a sheet of two assets, the token the ledger took up second being worth more and
\* listed first
C18_Witness ==
    /\ BalanceSheetMade
    /\ tracker.keys = <<"T1", "T2">>
    /\ Len(last.result.assets) = 2
    /\ last.result.assets[1].contract = "T2"
    /\ last.result.assets[1].value_usd > last.result.assets[2].value_usd
    /\ last.result.assets[2].value_usd > 0
    /\ last.result.total_assets
           = last.result.assets[1].value_usd + last.result.assets[2].value_usd

---------------------------------------------------------------------------
(* Properties of the rows of the replay *)

\* the rows the ledger takes no part in: failed, of no quantity, or neither in nor out
PassedOver(tx) ==
    \/ tx.is_error
    \/ tx.quantity_isna
    \/ tx.value_normalized = 0
    \/ tx.direction \notin {"inbound", "outbound"}

\* C19: a row that is flagged is_error, that has a quantity of zero or none, or whose
\* direction is neither inbound nor outbound leaves the lots and the log of disposals
\* as they were, and is returned with realized_gain_loss 0 and cost_basis_usd 0.
C19_PassedOverRows ==
    Replayed =>
        \A i \in 1..Len(last.steps) :
            LET step == last.steps[i]
            IN  PassedOver(step.tx) =>
                    /\ step.after.lots = step.before.lots
                    /\ step.after.disposals = step.before.disposals
                    /\ step.after.realized_gains = step.before.realized_gains
                    /\ step.row.realized_gain_loss = 0
                    /\ step.row.cost_basis_usd = 0
                    /\ \E j \in 1..Len(last.df) : last.df[j] = step.row

\* a replay that passes over a failed row and a row of the wallet to itself while the
\* ledger holds a lot
C19_Witness ==
    /\ Replayed
    /\ \E i \in 1..Len(last.steps), j \in 1..Len(last.steps) :
          /\ last.steps[i].tx.is_error
          /\ last.steps[i].tx.direction = "inbound"
          /\ last.steps[i].before.lots["T1"] # <<>>
          /\ last.steps[j].tx.direction = "self"
          /\ ~last.steps[j].tx.is_error
          /\ last.steps[j].before.lots["T1"] # <<>>

\* the columns of the input in a row of the output
InputColumns(row) ==
    [hash |-> row.hash, timestamp |-> row.timestamp,
     token_contract |-> row.token_contract, value_normalized |-> row.value_normalized,
     quantity_isna |-> row.quantity_isna, price_usd |-> row.price_usd,
     value_usd |-> row.value_usd, direction |-> row.direction, is_error |-> row.is_error]

\* value_usd, or 0 for a negative one
ValueOrZero(tx) == IF tx.value_usd > 0 THEN tx.value_usd ELSE 0

\* C20: the table the replay returns has the rows of the input, each once and no other,
\* from the latest timestamp to the earliest; an inbound row the ledger processed has
\* realized_gain_loss 0 and its value_usd (0 for a negative one) as cost_basis_usd, and
\* an outbound row it processed has the realized_gain_loss and the total_cost_basis of
\* the disposal recorded for it, whose proceeds are the row's value_usd (0 for a
\* negative one).
C20_ReplayOutput ==
    Replayed =>
        /\ Len(last.df) = Len(txs)
        /\ \A i \in 1..Len(txs) :
               Cardinality({j \in 1..Len(last.df) : InputColumns(last.df[j]) = txs[i]}) = 1
        /\ \A i \in 1..Len(last.df), j \in 1..Len(last.df) :
               i < j => last.df[i].timestamp >= last.df[j].timestamp
        /\ \A i \in 1..Len(last.steps) :
               LET step == last.steps[i]
                   rows == {j \in 1..Len(last.df) : last.df[j].hash = step.tx.hash}
               IN  ~PassedOver(step.tx) =>
                       \A j \in rows :
                           IF step.tx.direction = "inbound"
                           THEN /\ last.df[j].realized_gain_loss = 0
                                /\ last.df[j].cost_basis_usd = ValueOrZero(step.tx)
                           ELSE \E d \in Range(step.after.disposals) :
                                   /\ step.after.disposals = Append(step.before.disposals, d)
                                   /\ d.tx_hash = step.tx.hash
                                   /\ d.total_proceeds = ValueOrZero(step.tx)
                                   /\ last.df[j].realized_gain_loss = d.realized_gain_loss
                                   /\ last.df[j].cost_basis_usd = d.total_cost_basis

\* a replay of three rows given oldest first: an acquisition, a disposal that takes its
\* lot at a gain, and an acquisition of negative value
C20_Witness ==
    /\ Replayed
    /\ Len(txs) = 3
    /\ txs[1].timestamp < txs[2].timestamp
    /\ \E i \in 1..3, j \in 1..3, k \in 1..3 :
          /\ last.df[i].direction = "inbound" /\ last.df[i].cost_basis_usd > 0
          /\ last.df[j].direction = "outbound"
          /\ last.df[j].cost_basis_usd > 0 /\ last.df[j].realized_gain_loss > 0
          /\ last.df[k].direction = "inbound" /\ last.df[k].value_usd < 0
          /\ last.df[k].cost_basis_usd = 0

---------------------------------------------------------------------------
(* Properties of the reports *)

PeriodSummaryMade == last.op = "generate_period_summary"

\* C14: the monthly summary of a range of one year has 12 or 13 periods, no day is in
\* two of them, and their transaction counts add up to the number of transactions dated
\* from the first day of the range to its last, whatever their time of day.
C14_PeriodSummaryComplete ==
    PeriodSummaryMade =>
        LET summaries == last.result
            dated == {i \in 1..Len(last.df) :
                         /\ DateOf(last.df[i].timestamp) >= last.start_date
                         /\ DateOf(last.df[i].timestamp) <= last.end_date}
        IN  /\ Len(summaries) \in {12, 13}
            /\ \A i \in 1..Len(summaries), j \in 1..Len(summaries) :
                   i < j => summaries[i].period_end < summaries[j].period_start
            /\ SumOf(summaries, "transaction_count") = Cardinality(dated)

TaxReportMade == last.op = "generate_tax_report"

\* the first and the last day of a year
YearStart(year) == year * DaysPerYear
YearEnd(year) == (year + 1) * DaysPerYear - 1

\* the lot-usage fragments of the disposals of the log that are dated within the year of
\* the report, in the order of the log, each with the hash of its disposal
RECURSIVE FragmentsOf(_)
FragmentsOf(disposals) ==
    IF disposals = <<>> THEN <<>>
    ELSE LET d == Head(disposals)
         IN  (IF d.disposal_date >= YearStart(last.tax_year)
                  /\ d.disposal_date <= YearEnd(last.tax_year)
              THEN [i \in 1..Len(d.lots_used) |->
                       [tx_hash |-> d.tx_hash, lot |-> d.lots_used[i]]]
              ELSE <<>>) \o FragmentsOf(Tail(disposals))

YearFragments == FragmentsOf(last.before.disposals)

\* C16: the entry of a fragment is Short-term when the fragment was held 365 days or
\* less, to the second, and Long-term when it was held longer.
C16_TermSplit ==
    TaxReportMade =>
        /\ Len(last.result.form_8949_entries) = Len(YearFragments)
        /\ \A i \in 1..Len(YearFragments) :
               LET held == YearFragments[i].lot.holding_period_days
                   entry == last.result.form_8949_entries[i]
               IN  /\ entry.term \in {"Short-term", "Long-term"}
                   /\ entry.term = "Short-term" <=> held <= ShortTermDays * SecondsPerDay

\* a report with a fragment held 365 days to the second, Short-term, and one held a
\* second longer, Long-term
C16_Witness ==
    /\ TaxReportMade
    /\ \E i \in 1..Len(YearFragments), j \in 1..Len(YearFragments) :
          /\ YearFragments[i].lot.holding_period_days = ShortTermDays * SecondsPerDay
          /\ last.result.form_8949_entries[i].term = "Short-term"
          /\ YearFragments[j].lot.holding_period_days = ShortTermDays * SecondsPerDay + 1
          /\ last.result.form_8949_entries[j].term = "Long-term"

\* the sum of the gain_loss of the entries of a term and a sign: the gains (sign 1) or
\* the losses, gain_loss not above 0 (sign -1)
RECURSIVE GainLossOf(_, _, _)
GainLossOf(entries, term, sign) ==
    IF entries = <<>> THEN 0
    ELSE LET e == Head(entries)
             mine == /\ e.term = term
                     /\ (sign = 1) <=> (e.gain_loss > 0)
         IN  (IF mine THEN e.gain_loss ELSE 0) + GainLossOf(Tail(entries), term, sign)

\* C17: the report of a year has one entry for each lot-usage fragment of each disposal
\* dated within the year and no other, with the fragment's proceeds, cost basis and
\* their difference as gain_loss; the gains of each term are the sum of the positive
\* gain_loss of its entries and its losses the sum of the others', as magnitudes; the net
\* of a term is its gains less its losses, and total_net is the sum of all gain_loss.
C17_TaxReportTotals ==
    TaxReportMade =>
        LET report == last.result
            entries == report.form_8949_entries
        IN  /\ Len(entries) = Len(YearFragments)
            /\ \A i \in 1..Len(YearFragments) :
                   /\ entries[i].tx_hash = YearFragments[i].tx_hash
                   /\ entries[i].proceeds = YearFragments[i].lot.proceeds
                   /\ entries[i].cost_basis = YearFragments[i].lot.cost_basis
                   /\ entries[i].gain_loss
                          = YearFragments[i].lot.proceeds - YearFragments[i].lot.cost_basis
            /\ report.short_term.gains = GainLossOf(entries, "Short-term", 1)
            /\ report.short_term.losses = -GainLossOf(entries, "Short-term", -1)
            /\ report.long_term.gains = GainLossOf(entries, "Long-term", 1)
            /\ report.long_term.losses = -GainLossOf(entries, "Long-term", -1)
            /\ report.short_term.losses >= 0 /\ report.long_term.losses >= 0
            /\ report.short_term.net = report.short_term.gains - report.short_term.losses
            /\ report.long_term.net = report.long_term.gains - report.long_term.losses
            /\ report.total_net = SumOf(entries, "gain_loss")

\* the report of year 1 for a disposal that took two lots, one held more than 365 days
\* at a gain and one held 365 days at a loss
C17_Witness ==
    /\ TaxReportMade
    /\ last.tax_year = 1
    /\ Len(last.result.form_8949_entries) = 2
    /\ YearFragments[1].tx_hash = YearFragments[2].tx_hash
    /\ last.result.long_term.gains > 0
    /\ last.result.long_term.losses = 0
    /\ last.result.short_term.gains = 0
    /\ last.result.short_term.losses > 0
    /\ last.result.total_net = last.result.long_term.gains - last.result.short_term.losses

---------------------------------------------------------------------------
(* Properties of the requests *)

RequestOps == {"generate_financial_statements", "get_balance_sheet", "generate_tax_report"}

\* the cache holds no table or no tracker for the wallet
NothingStored(wallet_address) ==
    \/ ~cache[<<wallet_address, "transactions">>].exists
    \/ ~cache[<<wallet_address, "tracker">>].exists

\* C15: a request for the statements, the balance sheet or the tax report of a wallet
\* the cache holds no replay for is answered with the ValueError "no analysis data",
\* status 404, and with no report, and a request for a wallet it holds one for is
\* answered with the report; an analysis that found transactions leaves the cache
\* holding the replay of its wallet.
C15_NoAnalysisData ==
    /\ last.op \in RequestOps =>
          IF NothingStored(last.wallet)
          THEN /\ last.error = "ValueError"
               /\ StatusCode(last) = HTTP_404_NOT_FOUND
               /\ "result" \notin DOMAIN last
          ELSE /\ last.error = ""
               /\ StatusCode(last) # HTTP_404_NOT_FOUND
               /\ "result" \in DOMAIN last
    /\ (last.op = "analyze_wallet" /\ last.status = "ok") => ~NothingStored(last.wallet)

\* a request refused for a wallet after an analysis has found transactions and the cache
\* of every wallet has since been cleared
C15_Witness ==
    /\ last.op \in RequestOps
    /\ last.error = "ValueError"
    /\ txs # <<>>
    /\ \A wallet_address \in Wallets : NothingStored(wallet_address)

---------------------------------------------------------------------------
(* Properties of the ledger, continued *)

IsAcquisition == last.op = "add_acquisition"

\* C22: an acquisition of a positive quantity appends one lot to the lots of its token,
\* with the quantity, the cost, the timestamp and the hash of the transaction, and
\* leaves every lot that was there, of this and of the other tokens, and the log of
\* disposals as they were.
C22_AcquisitionAppendsOneLot ==
    (IsAcquisition /\ last.quantity > 0) =>
        /\ Len(LotsAfter) = Len(LotsBefore) + 1
        /\ SubSeq(LotsAfter, 1, Len(LotsBefore)) = LotsBefore
        /\ LotsAfter[Len(LotsAfter)].quantity = last.quantity
        /\ LotsAfter[Len(LotsAfter)].total_cost = last.amount
        /\ LotsAfter[Len(LotsAfter)].timestamp = last.timestamp
        /\ LotsAfter[Len(LotsAfter)].tx_hash = last.tx_hash
        /\ \A token \in Tokens \ {last.token} :
               tracker.lots[token] = last.before.lots[token]
        /\ tracker.disposals = last.before.disposals
        /\ tracker.realized_gains = last.before.realized_gains

\* an acquisition has just been added to a token whose last lot has its timestamp, its
\* quantity and its cost: the two lots stand side by side
C22_Witness ==
    /\ IsAcquisition
    /\ Len(LotsAfter) = 2
    /\ LotsAfter[1].timestamp = LotsAfter[2].timestamp
    /\ LotsAfter[1].cost_per_unit = LotsAfter[2].cost_per_unit
    /\ LotsAfter[1].quantity = LotsAfter[2].quantity
    /\ LotsAfter[1].tx_hash # LotsAfter[2].tx_hash
    /\ tracker.disposals # <<>>

\* the smaller of two numbers
Min(a, b) == IF a < b THEN a ELSE b

\* a disposal of a positive quantity of a token that held lots
DisposalOfHeld == IsDisposal /\ last.quantity > 0 /\ SumOf(LotsBefore, "quantity") > 0

\* what a disposal leaves, whatever it took: the token's lots hold what they held less
\* the fragments, the other tokens' lots are as they were, and a disposal of more than
\* was held removes every lot, has their costs as its cost basis and is recorded with
\* its own quantity and all of its proceeds
DisposalAccounts ==
    LET held == SumOf(LotsBefore, "quantity")
        taken == SumOf(last.record.lots_used, "quantity")
    IN  /\ SumOf(LotsAfter, "quantity") = held - taken
        /\ \A token \in Tokens \ {last.token} :
               tracker.lots[token] = last.before.lots[token]
        /\ last.quantity > held =>
               /\ LotsAfter = <<>>
               /\ last.record.total_cost_basis = SumOf(LotsBefore, "total_cost")
               /\ last.record.quantity_disposed = last.quantity
               /\ last.record.total_proceeds = last.amount

LotHashes(self, token) == {lot.tx_hash : lot \in Range(self.lots[token])}

\* C28: every lot of the ledger has a quantity above 0; a disposal leaves each lot of
\* its token as it was, or smaller and still above 0, or removes it; and the lots after
\* an operation are lots that were there before it or the lot of the transaction it
\* recorded, whose hash no earlier lot had, so that no removed lot comes back.
C28_LotsPositive ==
    /\ \A token \in Tokens : \A lot \in Range(tracker.lots[token]) : lot.quantity > 0
    /\ IsDisposal =>
          \A lot \in Range(LotsBefore) :
              \/ lot \in Range(LotsAfter)
              \/ FullyConsumed(lot)
              \/ \E l \in Range(LotsAfter) :
                    /\ l.tx_hash = lot.tx_hash
                    /\ l.quantity > 0 /\ l.quantity < lot.quantity
    /\ IsLedgerOp =>
          \A token \in Tokens :
              /\ LotHashes(tracker, token) \subseteq
                     LotHashes(last.before, token)
                         \cup (IF IsAcquisition /\ token = last.token
                               THEN {last.tx_hash} ELSE {})
              /\ \A h \in LotHashes(last.before, token) : h < last.tx_hash
              /\ Cardinality(LotHashes(tracker, token)) = Len(tracker.lots[token])

\* a disposal has removed one lot of its token and left the next with a part of what it
\* held
C28_Witness ==
    /\ IsDisposal
    /\ Len(LotsBefore) = 2
    /\ Len(LotsAfter) = 1
    /\ \E lot \in Range(LotsBefore) : FullyConsumed(lot)
    /\ \E lot \in Range(LotsBefore) : PartlyConsumed(lot)
    /\ LotsAfter[1].quantity > 0

\* the sum of total_cost_basis over the records of the log that are of the token
RECURSIVE CostBasisDisposed(_, _)
CostBasisDisposed(disposals, token) ==
    IF disposals = <<>> THEN 0
    ELSE (IF Head(disposals).token = token THEN Head(disposals).total_cost_basis ELSE 0)
             + CostBasisDisposed(Tail(disposals), token)

\* C27: from a new ledger on, the costs of the acquisitions of a token are the costs of
\* the lots it still has and the cost bases of its disposals, together.
C27_CostConservation ==
    \A token \in Tokens :
        last.acquired[token] = SumOf(tracker.lots[token], "total_cost")
                                   + CostBasisDisposed(tracker.disposals, token)

\* a token was acquired twice and a disposal has taken one lot and a part of the other,
\* so that its cost is partly in the log and partly in the lot that is left
C27_Witness ==
    /\ IsDisposal
    /\ Len(LotsBefore) = 2
    /\ Len(LotsAfter) = 1
    /\ last.record.total_cost_basis > 0
    /\ LotsAfter[1].total_cost > 0
    /\ LotsAfter[1].total_cost < SumOf(LotsBefore, "total_cost")
    /\ last.acquired[last.token]
           = LotsAfter[1].total_cost + last.record.total_cost_basis

---------------------------------------------------------------------------
(* Properties of the ledger under every call *)

\* C23: an acquisition or a disposal of a quantity that is not positive returns, leaves
\* the lots and the log of disposals as they were, and the disposal returns a record
\* whose quantity_disposed, total_proceeds, total_cost_basis and realized_gain_loss
\* are 0 and which has no fragments.
C23_NonPositiveQuantity ==
    (IsLedgerOp /\ last.quantity <= 0) =>
        /\ tracker.lots = last.before.lots
        /\ tracker.disposals = last.before.disposals
        /\ tracker.realized_gains = last.before.realized_gains
        /\ IsDisposal =>
              /\ last.record.quantity_disposed = 0
              /\ last.record.total_proceeds = 0
              /\ last.record.total_cost_basis = 0
              /\ last.record.realized_gain_loss = 0
              /\ last.record.lots_used = <<>>

\* a disposal of a negative quantity, with proceeds, of a token that holds a lot, after
\* an acquisition of zero of it
C23_Witness ==
    /\ IsDisposal
    /\ last.quantity < 0
    /\ last.amount > 0
    /\ LotsBefore # <<>>
    /\ LotsAfter = LotsBefore
    /\ nops = MaxOps
    /\ last.acquired[last.token] = SumOf(LotsAfter, "total_cost")
    /\ tracker.disposals = <<>>

LedgerQueried == last.op = "get_total_unrealized_gains"

\* what a token adds to the unrealized gains under a map of prices
UnrealizedOf(self, current_prices, token) ==
    IF /\ self.lots[token] # <<>>
       /\ token \in DOMAIN current_prices
       /\ current_prices[token] > 0
    THEN SumOf(self.lots[token], "quantity") * current_prices[token]
             - SumOf(self.lots[token], "total_cost")
    ELSE 0

\* C21: the total unrealized gain is the sum, over the tokens that hold a lot and whose
\* price in the map is above 0, of the value of the lots at that price less their cost;
\* a token without a price, or with a price of 0 or less, adds nothing, and an empty
\* map gives 0.
C21_UnrealizedGains ==
    LedgerQueried =>
        /\ last.result = SumFn([token \in Tokens |->
                                   UnrealizedOf(last.before, last.current_prices, token)])
        /\ DOMAIN last.current_prices = {} => last.result = 0

\* both tokens hold a lot, T1 is priced above 0 and T2 at 0: only T1 counts
C21_Witness ==
    /\ LedgerQueried
    /\ \A token \in Tokens : last.before.lots[token] # <<>>
    /\ DOMAIN last.current_prices = Tokens
    /\ last.current_prices["T2"] = 0
    /\ last.result = UnrealizedOf(last.before, last.current_prices, "T1")
    /\ last.result # 0
    /\ SumOf(last.before.lots["T2"], "total_cost") > 0

---------------------------------------------------------------------------
(* Properties of the income statement of a replay *)

IncomeStatementMade == last.op = "generate_income_statement"

InDates(date, start_date, end_date) == start_date <= date /\ date <= end_date

\* C25: the transactions an income statement counts and the disposals whose gains it
\* adds are those of the same dates, from the start date to the end date, both
\* included: the count is that of the rows dated within, and the realized gains are
\* those of the records dated within.
C25_SameWindow ==
    IncomeStatementMade =>
        /\ last.result.transaction_count =
               Len(SelectSeq(last.df,
                             LAMBDA tx : InDates(DateOf(tx.timestamp),
                                                 last.start_date, last.end_date)))
        /\ last.result.realized_gains_losses =
               SumOf(SelectSeq(last.before.disposals,
                               LAMBDA d : InDates(d.disposal_date,
                                                  last.start_date, last.end_date)),
                     "realized_gain_loss")

---------------------------------------------------------------------------
(* Properties of the cache *)

AnalysisStored == last.op = "analyze_wallet" /\ last.status = "ok"

\* C26: what get returns after a set is the data of the latest set, a write being
\* skipped only when the data is unchanged: after an analysis of a wallet, the ledger
\* stored under the wallet's tracker key is the ledger that analysis ended with.
C26_CacheRoundTrip ==
    AnalysisStored =>
        /\ cache[<<last.wallet, "tracker">>].exists
        /\ get(cache, <<last.wallet, "tracker">>) = tracker

---------------------------------------------------------------------------
(* Properties of the holding periods of a replay *)

\* the fragments of every record of the log
LoggedFragments(self) ==
    UNION {Range(self.disposals[i].lots_used) : i \in DOMAIN self.disposals}

\* C29: after a replay by calculate_cost_basis on a new ledger, FIFO or LIFO, every
\* fragment of every disposal has a holding period of 0 or more.
C29_HoldingPeriodsNonNegative ==
    (Replayed /\ last.fresh) =>
        \A fragment \in LoggedFragments(tracker) : fragment.holding_period_days >= 0

\* the disposal comes first in the input and the acquisition it consumes, a day older,
\* after it
C29_Witness ==
    /\ Replayed
    /\ last.fresh
    /\ Len(txs) >= 2
    /\ txs[1].direction = "outbound"
    /\ txs[2].direction = "inbound"
    /\ txs[2].timestamp < txs[1].timestamp
    /\ \E fragment \in LoggedFragments(tracker) : fragment.holding_period_days > 0

---------------------------------------------------------------------------
(* Properties of the tax report and the income statement of a year *)

\* the records of the log dated from the one day to the other
RecordsWithin(self, start_date, end_date) ==
    SelectSeq(self.disposals,
              LAMBDA d : start_date <= d.disposal_date /\ d.disposal_date <= end_date)

\* the record of a disposal of a token that held no lot
IsZeroCostBasis(d) == d.note = "zero_cost_basis"

\* the fragments of the record add up to the quantity it reports
FullyCovered(d) == SumOf(d.lots_used, "quantity") = d.quantity_disposed

\* C30: total_net of the tax report of a year is the sum of the realized_gain_loss of
\* the year's disposal records whenever each was fully covered by lots; a disposal of a
\* token without lots has no entry in the report and adds nothing to its totals, while
\* the ledger records its whole proceeds as realized gain and the income statement of
\* the year counts them.
C30_TaxReportAndZeroCostBasis ==
    /\ TaxReportMade =>
          LET report == last.result
              entries == report.form_8949_entries
              records == RecordsWithin(last.before,
                                       YearStart(last.tax_year), YearEnd(last.tax_year))
              matched == SelectSeq(records, LAMBDA d : ~IsZeroCostBasis(d))
          IN  /\ \A i \in DOMAIN records :
                     IsZeroCostBasis(records[i]) =>
                         /\ records[i].realized_gain_loss = records[i].total_proceeds
                         /\ records[i].lots_used = <<>>
              /\ Len(entries) = Len(FragmentsOf(matched))
              /\ (\A i \in DOMAIN matched : FullyCovered(matched[i])) =>
                     /\ report.total_net = SumOf(matched, "realized_gain_loss")
                     /\ (report.short_term.gains - report.short_term.losses)
                            + (report.long_term.gains - report.long_term.losses)
                        = SumOf(matched, "realized_gain_loss")
    /\ IncomeStatementMade =>
          last.result.realized_gains_losses
              = SumOf(RecordsWithin(last.before, last.start_date, last.end_date),
                      "realized_gain_loss")
    /\ Len(tracker.realized_gains) = Len(tracker.disposals)
    /\ \A i \in DOMAIN tracker.disposals :
           tracker.realized_gains[i] = tracker.disposals[i].realized_gain_loss

\* the report of a year with a disposal for $300 of a token that held no lot and a
\* disposal that a lot covered: one entry, and a total_net that leaves the $300 out
C30_Witness ==
    /\ TaxReportMade
    /\ LET records == RecordsWithin(last.before,
                                    YearStart(last.tax_year), YearEnd(last.tax_year))
       IN  /\ Len(records) = 2
           /\ \E i \in DOMAIN records :
                  /\ IsZeroCostBasis(records[i])
                  /\ records[i].total_proceeds = USD(300)
           /\ \E i \in DOMAIN records :
                  /\ ~IsZeroCostBasis(records[i])
                  /\ FullyCovered(records[i])
                  /\ last.result.total_net = records[i].realized_gain_loss
           /\ Len(last.result.form_8949_entries) = 1
           /\ last.result.total_net # SumOf(records, "realized_gain_loss")

====
